---- MODULE Spec2Model ----
(***************************************************************************)
(* SeeNote: the annotation engine (label gestures, category list), the    *)
(* file-load pipeline and the transport of App / Spectrogram, and the      *)
(* audio graph of VideoPlayer.                                             *)
(*                                                                         *)
(* Units.  Times are counted in ticks, TicksPerSecond ticks to the second  *)
(* (one tick = 0.025 s), so that the 0.05 s label threshold is 2 ticks and *)
(* the 0.1 s layering gap is 4 ticks.  Horizontal positions are pixels.    *)
(* The container is ViewW pixels wide; at the default window of 5 s this   *)
(* gives 800 pixels per second, i.e. 20 pixels per tick.                   *)
(*                                                                         *)
(* One action of the model is one run of an event handler followed by the  *)
(* React re-render it triggers (the re-render recomputes the label layers, *)
(* which writes layerIndex into the stored label objects).                 *)
(***************************************************************************)
EXTENDS Integers, Sequences, FiniteSets, TLC

VARIABLES
    \* ---- App state (part_000)
    labels,            \* Label[]: sequence of label records
    selectedLabelId,   \* id of the selected label, 0 for null
    labelConfigs,      \* LabelConfig[]: sequence of [key, text, color]
    activeLabelIndex,  \* 0-based index into labelConfigs
    duration,          \* media duration in ticks (0 before any media)
    currentTime,       \* playhead in ticks
    windowSize,        \* settings.windowSize, in 1/ZoomScale seconds
    minFreq,           \* settings.minFreq, Hz
    maxFreq,           \* settings.maxFreq, Hz
    specData,          \* 0 for null, else the load whose field is published
    spectrogramError,  \* 0 for null, else the load whose failure is recorded
    isProcessing,      \* the processing flag
    audioBuffer,       \* 0 for null, else the load whose decoded buffer is held
    loads,             \* the handleFileUpload invocations started so far:
                       \* sequence of [pc, file, fftSize, hopSize, written,
                       \* error], written being the columns of the
                       \* invocation's field filled so far
    \* ---- Spectrogram component state (part_001)
    scrollLeft,        \* pixels
    dragStart,         \* pan gesture  {x, scroll} or off
    creatingLabel,     \* {start, current} or off
    resizingLabel,     \* {id, side, originalTime} or off
    draggedLabel,      \* {id, startOffset} or off
    focusedId,         \* id of the label whose text input has the keyboard
                       \* focus, 0 when no label input has it
    \* ---- the picture
    intensity,         \* settings.intensity (brightness), tenths
    contrast,          \* settings.contrast, tenths
    frequencyScale,    \* settings.frequencyScale
    canvas,            \* what the last draw() left on the canvas
    \* ---- App state of the category editor and of the transport (part_000)
    editingLabelIndex, \* 0-based index of the category being renamed,
                       \* NOT_EDITING for null
    editingLabelText,  \* the text of the rename input
    isPlaying,         \* the playing flag
    videoSrc,          \* 0 for null, else the load whose object URL it is
    volume,            \* hundredths
    muted,
    \* ---- the media element and the refs of VideoPlayer (VideoPlayer.tsx)
    paused,            \* video.paused
    ended,             \* video.ended
    playQueued,        \* a play event waits to be dispatched
    audioCtxRef,       \* an AudioContext has been constructed
    sourceNodeRef,     \* a MediaElementAudioSourceNode has been created
    gainNodeRef,       \* the GainNode {gain} or off
    initializedRef,
    nodesCreated,      \* calls of createMediaElementSource so far
    \* ---- history
    lastOp             \* the handler, and the branch of it, that last changed
                       \* the state

vars == <<labels, selectedLabelId, labelConfigs, activeLabelIndex, duration,
          currentTime, windowSize, minFreq, maxFreq, specData, spectrogramError,
          isProcessing, audioBuffer, loads, scrollLeft, dragStart, creatingLabel,
          resizingLabel, draggedLabel, focusedId, intensity, contrast,
          frequencyScale, canvas, editingLabelIndex, editingLabelText,
          isPlaying, videoSrc, volume, muted, paused, ended, playQueued,
          audioCtxRef, sourceNodeRef, gainNodeRef, initializedRef,
          nodesCreated, lastOp>>

appVars   == <<labelConfigs, activeLabelIndex>>
loadVars  == <<specData, spectrogramError, isProcessing, audioBuffer, loads>>
freqVars  == <<minFreq, maxFreq>>
settingsVars == <<windowSize, freqVars>>
viewVars  == <<settingsVars, scrollLeft>>
lookVars  == <<intensity, contrast, frequencyScale>>
paintVars == <<lookVars, canvas>>
editVars  == <<editingLabelIndex, editingLabelText>>
soundVars == <<volume, muted>>
mediaVars == <<paused, ended, playQueued>>
graphVars == <<audioCtxRef, sourceNodeRef, gainNodeRef, nodesCreated>>
\* what the handlers of the annotation engine and of the settings leave alone
deckVars  == <<editVars, isPlaying, videoSrc, soundVars, mediaVars, graphVars>>
\* the state of App whose change renders App, and VideoPlayer with it
appState  == <<labels, selectedLabelId, appVars, duration, currentTime,
               specData, spectrogramError, isProcessing, audioBuffer,
               settingsVars, lookVars, editVars, isPlaying, videoSrc,
               soundVars>>

----------------------------------------------------------------------------
(* Bounds of the model *)

MaxLabels == 2          \* labels held at once
MaxChordLabels == 1     \* labels held at once when buttons are chorded
MaxConfigs == 3         \* categories held at once (the code allows 10)
MaxLoads == 3           \* file loads started in one behaviour
MediaDuration == 5      \* duration of the loaded media, ticks
MaxScroll == 20         \* pans are followed up to this scroll offset, pixels
MaxOvershoot == 2       \* drags are followed until a label ends this many
                        \* ticks after the end of the media
MaxLayerLabels == 3     \* labels laid out on their own
MaxWorkLoads == 1       \* files chosen while labels are drawn and moved

(* Program constants *)

TicksPerSecond == 40
ZoomScale == 10         \* windowSize is counted in tenths of a second
ViewW == 4000           \* containerRef.current.clientWidth
AXIS_MARGIN == 50       \* frequency-axis area, pixels
MIN_ZOOM_SEC == 1
MAX_ZOOM_SEC == 60
DEFAULT_ZOOM_SEC == 5
Tenths == 10                       \* the sliders of intensity and contrast step by 0.1
DEFAULT_INTENSITY == 7             \* 0.7
DEFAULT_CONTRAST == 10             \* 1.0
DEFAULT_MAX_FREQ == 22050
INPUT_MIN_WIDTH == 30   \* a label shows its text input when wider, pixels
YIELD_EVERY == 1000     \* generateSpectrogramData yields every so many columns
FFT_SIZE == 1024        \* settings.fftSize
HOP_SIZE == 512         \* the default hopSize of generateSpectrogramData
MAX_HOTKEYS == 10
NO_LAYER == -1          \* layerIndex of a label object that has no such property
MAX_BYTE == 255         \* the largest intensity of a cell of the field
MEL_CORNER == 700       \* toMel, fromMel
MIN_INTENSITY == 1      \* Brightness slider: 0.1 to 2.0
MIN_CONTRAST == 5       \* Contrast slider: 0.5 to 2.0
MAX_LOOK == 20
GRID_STEP == 50         \* spacing of the placeholder's grid lines, pixels
NOT_EDITING == -1       \* editingLabelIndex null
VolumeScale == 100      \* volume is held in hundredths
DEFAULT_VOLUME == 1     \* useState(1.0)
MAX_VOLUME == 4         \* max of the volume slider
VOLUME_STEP == 5        \* step of the volume slider (0.05), hundredths
CanvasH == 2            \* canvas.height, pixels

\* what a pixel of the canvas holds when it is not a colour of the table
CLEAR == -1             \* transparent: nothing painted
FILLED == -2            \* the placeholder's background
GRID_LINE == -3         \* a grid line of the placeholder

MIN_LABEL_LEN == TicksPerSecond \div 20     \* 0.05 s
LAYER_GAP == TicksPerSecond \div 10         \* 0.1 s

HOTKEY_COLORS ==
    << "#ffffff", "#ef4444", "#f97316", "#eab308", "#22c55e",
       "#06b6d4", "#3b82f6", "#a855f7", "#ec4899", "#64748b" >>

DEFAULT_LABEL_CONFIGS ==
    << [key |-> "0", text |-> "Custom Label", color |-> HOTKEY_COLORS[1]] >>

(* Inputs *)

PointerXs == {0, 60, 100, 120}     \* clientX - rect.left of a mouse event
CatXs == {0, 60}                   \* the same, while the category list is exercised
Buttons == {0, 1, 2}               \* e.button: primary, middle, secondary
CategoryNames == {"call", "song"}  \* texts typed for a new category
\* positions of the volume slider, hundredths
VolumeInputs == {0, 50, 100, 400}
\* texts typed into the rename input of a category
RenameTexts == {"", " ", "call", " song "}
\* intervals of the labels laid out on their own, in ticks: (0,5), (3,8) and
\* (6,10) s, and short ones whose distances are around LAYER_GAP
LayerIntervals ==
    { <<0, 200>>, <<120, 320>>, <<240, 400>>,
      <<0, 4>>, <<4, 8>>, <<7, 12>>, <<8, 12>>, <<0, 12>> }
LabelTexts == {"x"}                \* texts typed into a label's input
EditXs == {0, 60}                  \* pointer columns while texts are edited
EditTexts == {"", " ", "x", "CALL"}    \* texts typed while texts are edited
EditNames == {"Call"}              \* category texts while texts are edited
SliderValues == {1, 20, 60}        \* positions of the Window Size slider
EditSliderValues == {5, 20}        \* the same, while texts are edited
ZoomXs == {0, 2000}                \* pointer columns of wheel events
WheelDeltas == {-100, 100}         \* deltaY (+ deltaX) of wheel events
FreqInputs == {0, 4000, 30000}     \* numerals typed into the frequency fields
DrawXs == {0, 60, 100}             \* canvas columns whose pixels are followed
Pixels == DrawXs \X (0..(CanvasH - 1))
LookValues == {5, 20}              \* positions of the Brightness and Contrast sliders

----------------------------------------------------------------------------
(* Helpers *)

Max(a, b) == IF a >= b THEN a ELSE b
Min(a, b) == IF a <= b THEN a ELSE b
SetMin(S) == CHOOSE m \in S : \A n \in S : m <= n

Digits == << "0", "1", "2", "3", "4", "5", "6", "7", "8", "9" >>

\* Number.prototype.toString for the indices 0..9
toString(i) == Digits[i + 1]

NoCreating == [on |-> FALSE, start |-> 0, current |-> 0]
NoResizing == [on |-> FALSE, id |-> 0, side |-> "start", originalTime |-> 0]
NoDragged  == [on |-> FALSE, id |-> 0, startOffset |-> 0]
\* the canvas before the first draw()
NoCanvas == [kind |-> "none", px |-> [p \in Pixels |-> CLEAR]]
NoDragStart == [on |-> FALSE, x |-> 0, scroll |-> 0]
\* gainNodeRef.current before the nodes are created
NoGainNode == [on |-> FALSE, gain |-> 0]

\* VideoPlayer's first effect.  Its dependencies include the onTimeUpdate
\* prop, a function App creates anew at every render, so the effect runs again
\* after every render of App; with a src it resets initializedRef
PlayerEffect ==
    initializedRef' =
        IF videoSrc' # 0 /\ appState' # appState THEN FALSE ELSE initializedRef

\* the transport, the category editor and VideoPlayer after construction, or
\* after the file of load src was chosen
PlayerInit(src) ==
    /\ editingLabelIndex = NOT_EDITING
    /\ editingLabelText = ""
    /\ isPlaying = FALSE
    /\ videoSrc = src
    /\ volume = DEFAULT_VOLUME * VolumeScale
    /\ muted = FALSE
    /\ paused = TRUE
    /\ ended = FALSE
    /\ playQueued = FALSE
    /\ audioCtxRef = FALSE
    /\ sourceNodeRef = FALSE
    /\ gainNodeRef = NoGainNode
    /\ initializedRef = FALSE
    /\ nodesCreated = 0

\* no pointer gesture is in progress
Quiet ==
    /\ ~dragStart.on /\ ~creatingLabel.on
    /\ ~resizingLabel.on /\ ~draggedLabel.on

\* The sequence s without the elements at the positions outside keep
RECURSIVE FilterSeq(_, _)
FilterSeq(s, keep) ==
    IF s = << >> THEN << >>
    ELSE LET rest == FilterSeq(Tail(s), {i - 1 : i \in keep \ {1}})
         IN IF 1 \in keep THEN << Head(s) >> \o rest ELSE rest

----------------------------------------------------------------------------
(* calculateLabelLayers (helpers.ts) *)

\* [...labels].sort((a, b) => a.start - b.start): the positions of ls in
\* ascending start order; the sort is stable
RECURSIVE SortByStart(_, _, _)
SortByStart(ls, i, sorted) ==
    IF i > Len(ls) THEN sorted
    ELSE LET k == Cardinality({j \in DOMAIN sorted :
                                  ls[sorted[j]].start <= ls[i].start})
         IN SortByStart(ls, i + 1,
                SubSeq(sorted, 1, k) \o << i >> \o SubSeq(sorted, k + 1, Len(sorted)))

\* the forEach over the sorted labels: layers holds the end of the last label
\* of each layer, acc the layerIndex given to each position of ls
\* faulty variant: the 0.1 s buffer is left out of the comparison
RECURSIVE PlaceLabels_noGap(_, _, _, _)
PlaceLabels_noGap(ls, order, layers, acc) ==
    IF order = << >> THEN acc
    ELSE LET p == Head(order)
             fits == {i \in DOMAIN layers : layers[i] <= ls[p].start}
             slot == IF fits = {} THEN Len(layers) + 1 ELSE SetMin(fits)
             layers2 == IF fits = {} THEN Append(layers, ls[p].end)
                        ELSE [layers EXCEPT ![slot] = ls[p].end]
         IN PlaceLabels_noGap(ls, Tail(order), layers2,
                              [acc EXCEPT ![p] = slot - 1])

RECURSIVE PlaceLabels(_, _, _, _)
PlaceLabels(ls, order, layers, acc) ==
    IF order = << >> THEN acc
    ELSE LET p == Head(order)
             fits == {i \in DOMAIN layers : layers[i] + LAYER_GAP <= ls[p].start}
             slot == IF fits = {} THEN Len(layers) + 1 ELSE SetMin(fits)
             layers2 == IF fits = {} THEN Append(layers, ls[p].end)
                        ELSE [layers EXCEPT ![slot] = ls[p].end]
         IN PlaceLabels(ls, Tail(order), layers2, [acc EXCEPT ![p] = slot - 1])

LayerOf(ls) ==
    PlaceLabels(ls, SortByStart(ls, 1, << >>), << >>, [i \in DOMAIN ls |-> 0])

\* The stored labels after a render: calculateLabelLayers sorts a shallow
\* copy of the array and assigns label.layerIndex on the label objects
\* themselves, so the stored records carry the layer index
calculateLabelLayers(ls) ==
    [i \in DOMAIN ls |-> [ls[i] EXCEPT !.layerIndex = LayerOf(ls)[i]]]

----------------------------------------------------------------------------
(* Coordinates (Spectrogram.tsx) *)

\* the time of absolute pixel column ax, in ticks:
\* ax / pixelsPerSecond with pixelsPerSecond = clientWidth / windowSize
PxToTime(ax) == (ax * windowSize * TicksPerSecond) \div (ViewW * ZoomScale)

\* the pixel column, relative to the container, of time t
TimeToPx(t) ==
    (t * ViewW * ZoomScale) \div (windowSize * TicksPerSecond) - scrollLeft

\* Math.max(0, Math.min(t, duration))
\* faulty variant: the upper clamp is missing
ClampTime_noUpper(t) == Max(0, t)

ClampTime(t) == Max(0, Min(t, duration))

getPointerTime(x) == ClampTime(PxToTime(x + scrollLeft))

\* a label item is rendered unless it lies outside the container
Rendered(l) ==
    LET left == TimeToPx(l.start)
        width == TimeToPx(l.end) - TimeToPx(l.start)
    IN ~(left + width < 0 \/ left > ViewW)

\* the label item of l is rendered and wide enough to show its text input
HasInput(l) ==
    Rendered(l) /\ TimeToPx(l.end) - TimeToPx(l.start) > INPUT_MIN_WIDTH

\* pointer column x is over the label item (its width is at least 2 px)
OverLabel(l, x) ==
    LET left == TimeToPx(l.start)
        width == TimeToPx(l.end) - TimeToPx(l.start)
    IN Rendered(l) /\ left <= x /\ x <= left + Max(2, width)

IdsOf(ls) == {ls[i].id : i \in DOMAIN ls}

\* Math.random().toString(36).substr(2, 9): an id no stored label has
FreshId == SetMin((1..(MaxLabels + 1)) \ IdsOf(labels))

----------------------------------------------------------------------------
(* Keyboard focus of the label text inputs (Spectrogram.tsx) *)

\* String.prototype.trim on the texts typed here
trim(t) ==
    CASE t = " " -> ""
      [] t = " song " -> "song"
      [] OTHER -> t

\* onBlur of the focused input finds its label's text empty
BlurDeletes ==
    \E i \in DOMAIN labels :
        labels[i].id = focusedId /\ trim(labels[i].text) = ""

\* onBlur: ls without the label of the focused input, when its text is empty
Blurred(ls) ==
    IF BlurDeletes
    THEN FilterSeq(ls, {i \in DOMAIN ls : ls[i].id # focusedId})
    ELSE ls

\* the stored labels after the focused input, if any, has lost the focus
AfterBlur ==
    IF BlurDeletes THEN calculateLabelLayers(Blurred(labels)) ELSE labels

\* the input of the label at position i of labels' is mounted by this step
Mounts(i) ==
    /\ HasInput(labels[i])'
    /\ ~\E j \in DOMAIN labels :
           labels[j].id = labels'[i].id /\ HasInput(labels[j])

\* The focus holder after the re-render, f being the holder the event left:
\* an input mounted with autoFocus (its label selected, its text empty) takes
\* the focus, and an input that is unmounted loses it
FocusAfterRender(f) ==
    IF \E i \in DOMAIN labels' :
           /\ labels'[i].id = selectedLabelId'
           /\ labels'[i].text = ""
           /\ Mounts(i)
    THEN selectedLabelId'
    ELSE IF \E i \in DOMAIN labels' : labels'[i].id = f /\ HasInput(labels[i])'
    THEN f
    ELSE 0

----------------------------------------------------------------------------
(* Initial state: the state after App and Spectrogram are constructed *)

Init ==
    /\ labels = << >>
    /\ selectedLabelId = 0
    /\ labelConfigs = DEFAULT_LABEL_CONFIGS
    /\ activeLabelIndex = 0
    /\ duration = 0
    /\ currentTime = 0
    /\ windowSize = DEFAULT_ZOOM_SEC * ZoomScale
    /\ minFreq = 0
    /\ maxFreq = DEFAULT_MAX_FREQ
    /\ specData = 0
    /\ spectrogramError = 0
    /\ isProcessing = FALSE
    /\ audioBuffer = 0
    /\ loads = << >>
    /\ scrollLeft = 0
    /\ dragStart = NoDragStart
    /\ creatingLabel = NoCreating
    /\ resizingLabel = NoResizing
    /\ draggedLabel = NoDragged
    /\ focusedId = 0
    /\ intensity = DEFAULT_INTENSITY
    /\ contrast = DEFAULT_CONTRAST
    /\ frequencyScale = "linear"
    /\ canvas = NoCanvas
    /\ PlayerInit(0)
    /\ lastOp = "init"

----------------------------------------------------------------------------
(* VideoPlayer: the media element reports its duration *)

OnDurationChange ==
    /\ duration # MediaDuration
    /\ duration' = MediaDuration
    /\ lastOp' = "durationChange"
    /\ UNCHANGED <<labels, selectedLabelId, appVars, currentTime, loadVars,
                   viewVars, dragStart, creatingLabel, resizingLabel, draggedLabel,
                   focusedId>>
    /\ UNCHANGED <<paintVars, deckVars>>
    /\ PlayerEffect

\* App.seek: moves the media element, when there is one
seek(t) == IF duration > 0 THEN t ELSE currentTime

----------------------------------------------------------------------------
(* Spectrogram: pointer handlers *)

\* handleMouseDown on the container: a press on the canvas.  (A press on a
\* label item, its handles or its input stops propagating and never gets
\* here; labels sit in 30 px lanes, so every column has canvas to press.)
\* Button 2 prevents the default action; any other press on the canvas takes
\* the focus from a focused label input, whose onBlur then runs.
HandleMouseDown(x, button) ==
    /\ IF button = 2
       THEN /\ dragStart' = [on |-> TRUE, x |-> x, scroll |-> scrollLeft]
            /\ lastOp' = "mouseDown.pan"
            /\ UNCHANGED <<labels, selectedLabelId, creatingLabel, currentTime>>
       ELSE IF x < AXIS_MARGIN
       THEN /\ labels' = AfterBlur
            /\ selectedLabelId' = IF BlurDeletes THEN 0 ELSE selectedLabelId
            /\ lastOp' = IF BlurDeletes THEN "blur.delete" ELSE lastOp
            /\ UNCHANGED <<creatingLabel, currentTime, dragStart>>
       ELSE /\ Len(AfterBlur) < MaxLabels
            /\ labels' = AfterBlur
            /\ selectedLabelId' = 0
            /\ creatingLabel' = [on |-> TRUE, start |-> getPointerTime(x),
                                 current |-> getPointerTime(x)]
            /\ currentTime' = seek(getPointerTime(x))
            /\ lastOp' = "mouseDown.create"
            /\ UNCHANGED dragStart
    /\ UNCHANGED <<appVars, duration, loadVars, viewVars,
                   resizingLabel, draggedLabel>>
    /\ focusedId' = FocusAfterRender(IF button = 2 THEN focusedId ELSE 0)
    /\ UNCHANGED <<paintVars, deckVars>>
    /\ PlayerEffect

\* onMouseDown of the label item at position i of labels: a press on the
\* label's own area (not on a handle, not on its text input)
LabelMouseDown(i, x, button) ==
    /\ i \in DOMAIN labels
    /\ OverLabel(labels[i], x)
    /\ IF button = 1
       THEN /\ labels' = calculateLabelLayers(
                             FilterSeq(labels, DOMAIN labels \ {i}))
            /\ selectedLabelId' =
                   IF selectedLabelId = labels[i].id THEN 0 ELSE selectedLabelId
            /\ lastOp' = "labelDown.delete"
            /\ UNCHANGED draggedLabel
       ELSE /\ labels' = AfterBlur
            /\ selectedLabelId' = IF BlurDeletes THEN 0 ELSE labels[i].id
            /\ draggedLabel' = [on |-> TRUE, id |-> labels[i].id,
                                startOffset |-> getPointerTime(x) - labels[i].start]
            /\ lastOp' = "labelDown.drag"
    /\ UNCHANGED <<appVars, duration, currentTime, loadVars, viewVars,
                   dragStart, creatingLabel, resizingLabel>>
    /\ focusedId' = FocusAfterRender(IF button = 1 THEN focusedId ELSE 0)
    /\ UNCHANGED <<paintVars, deckVars>>
    /\ PlayerEffect

\* onMouseDown of one of the two edge handles of the label at position i
HandleDown(i, side) ==
    /\ i \in DOMAIN labels
    /\ Rendered(labels[i])
    /\ labels' = AfterBlur
    /\ selectedLabelId' = IF BlurDeletes THEN 0 ELSE labels[i].id
    /\ resizingLabel' =
           [on |-> TRUE, id |-> labels[i].id, side |-> side,
            originalTime |-> IF side = "start" THEN labels[i].start
                             ELSE labels[i].end]
    /\ lastOp' = "handleDown"
    /\ UNCHANGED <<appVars, duration, currentTime, loadVars, viewVars,
                   dragStart, creatingLabel, draggedLabel>>
    /\ focusedId' = FocusAfterRender(0)
    /\ UNCHANGED <<paintVars, deckVars>>
    /\ PlayerEffect

\* faulty variant: the moved edge follows the pointer without the 0.05 s stop
ResizeLabel_noStop(l, t) ==
    IF resizingLabel.side = "start"
    THEN [l EXCEPT !.start = t]
    ELSE [l EXCEPT !.end = t]

\* the label l after a pointer move to time t while it is being resized
ResizeLabel(l, t) ==
    IF resizingLabel.side = "start"
    THEN [l EXCEPT !.start = Min(t, l.end - MIN_LABEL_LEN)]
    ELSE [l EXCEPT !.end = Max(t, l.start + MIN_LABEL_LEN)]

\* the label l after a pointer move to time t while it is being dragged
DragLabel(l, t) ==
    LET len == l.end - l.start
        newStart == Max(0, t - draggedLabel.startOffset)
    IN [l EXCEPT !.start = newStart, !.end = newStart + len]

HandleMouseMove(x) ==
    LET t == getPointerTime(x) IN
    /\ IF dragStart.on
       THEN /\ Max(0, dragStart.scroll + (dragStart.x - x)) <= MaxScroll
            /\ scrollLeft' = Max(0, dragStart.scroll + (dragStart.x - x))
            /\ lastOp' = "mouseMove.pan"
            /\ UNCHANGED <<labels, creatingLabel>>
       ELSE IF creatingLabel.on
       THEN /\ creatingLabel' = [creatingLabel EXCEPT !.current = t]
            /\ lastOp' = "mouseMove.create"
            /\ UNCHANGED <<labels, scrollLeft>>
       ELSE IF resizingLabel.on
       THEN /\ labels' = calculateLabelLayers(
                   [i \in DOMAIN labels |->
                       IF labels[i].id = resizingLabel.id
                       THEN ResizeLabel(labels[i], t) ELSE labels[i]])
            /\ lastOp' = "mouseMove.resize"
            /\ UNCHANGED <<creatingLabel, scrollLeft>>
       ELSE IF draggedLabel.on
       THEN /\ \A i \in DOMAIN labels :
                   labels[i].id = draggedLabel.id
                       => DragLabel(labels[i], t).end <= duration + MaxOvershoot
            /\ labels' = calculateLabelLayers(
                   [i \in DOMAIN labels |->
                       IF labels[i].id = draggedLabel.id
                       THEN DragLabel(labels[i], t) ELSE labels[i]])
            /\ lastOp' = "mouseMove.drag"
            /\ UNCHANGED <<creatingLabel, scrollLeft>>
       ELSE UNCHANGED <<labels, creatingLabel, scrollLeft, lastOp>>
    /\ UNCHANGED <<selectedLabelId, appVars, duration, currentTime, loadVars,
                   settingsVars, dragStart, resizingLabel, draggedLabel>>
    /\ focusedId' = FocusAfterRender(focusedId)
    /\ UNCHANGED <<paintVars, deckVars>>
    /\ PlayerEffect

\* faulty variant: the text of the default category is copied too
NewLabel_alwaysText(id, start, end) ==
    LET active == labelConfigs[activeLabelIndex + 1]
    IN [id |-> id, configId |-> active.key, start |-> start, end |-> end,
        text |-> active.text, color |-> active.color, layerIndex |-> NO_LAYER]

\* the label a Creating gesture commits
NewLabel(id, start, end) ==
    LET active == labelConfigs[activeLabelIndex + 1]
    IN [id |-> id, configId |-> active.key, start |-> start, end |-> end,
        text |-> IF active.key = "0" THEN "" ELSE active.text,
        color |-> active.color, layerIndex |-> NO_LAYER]

\* whether a Creating gesture from start to end commits a label
\* faulty variant: a drag of exactly 0.05 s commits
Commits_inclusive(start, end) == end - start >= MIN_LABEL_LEN

Commits(start, end) == end - start > MIN_LABEL_LEN

\* handleMouseUp: onMouseUp and onMouseLeave of the container
HandleMouseUp ==
    LET start == Min(creatingLabel.start, creatingLabel.current)
        end   == Max(creatingLabel.start, creatingLabel.current)
        new   == NewLabel(FreshId, start, end)
        \* the new label's input is mounted with autoFocus (the label is
        \* selected and its text is empty) and takes the focus from the
        \* input that has it, whose onBlur then runs
        focuses == creatingLabel.on /\ Commits(start, end)
                      /\ new.text = "" /\ HasInput(new)
        steals == focuses /\ BlurDeletes
    IN
    /\ dragStart' = NoDragStart
    /\ IF creatingLabel.on /\ Commits(start, end)
       THEN /\ labels' = calculateLabelLayers(
                   Append(IF steals THEN Blurred(labels) ELSE labels, new))
            /\ selectedLabelId' = IF steals THEN 0 ELSE FreshId
            /\ lastOp' = "mouseUp.commit"
       ELSE /\ lastOp' = IF creatingLabel.on THEN "mouseUp.discard"
                       ELSE IF Quiet THEN lastOp ELSE "mouseUp"
            /\ UNCHANGED <<labels, selectedLabelId>>
    /\ creatingLabel' = NoCreating
    /\ resizingLabel' = NoResizing
    /\ draggedLabel' = NoDragged
    /\ UNCHANGED <<appVars, duration, currentTime, loadVars, viewVars>>
    /\ focusedId' = IF focuses THEN FreshId ELSE FocusAfterRender(focusedId)
    /\ UNCHANGED <<paintVars, deckVars>>
    /\ PlayerEffect

----------------------------------------------------------------------------
(* Spectrogram: the text input and the delete button of a label item *)

\* String.prototype.toLowerCase on the texts typed here
toLowerCase(t) ==
    CASE t = "Call" -> "call"
      [] t = "CALL" -> "call"
      [] OTHER -> t

\* labelConfigs.find(c => c.text.toLowerCase() === newText.toLowerCase() &&
\* c.key !== "0"): the position of the first such category, 0 for undefined
FindMatchingConfig(newText) ==
    LET hits == {c \in DOMAIN labelConfigs :
                    /\ toLowerCase(labelConfigs[c].text) = toLowerCase(newText)
                    /\ labelConfigs[c].key # "0"}
    IN IF hits = {} THEN 0 ELSE SetMin(hits)

\* faulty variant: the text is taken as typed, the category is never looked up
Retexted_noLookup(lb, newText) == [lb EXCEPT !.text = newText]

\* the label lb after its input's onChange with newText
Retexted(lb, newText) ==
    LET m == FindMatchingConfig(newText) IN
    IF m # 0
    THEN [lb EXCEPT !.text = labelConfigs[m].text,
                    !.configId = labelConfigs[m].key,
                    !.color = labelConfigs[m].color]
    ELSE IF lb.configId # "0" /\ lb.color # "#ffffff" /\ lb.text # newText
    THEN [lb EXCEPT !.text = newText, !.configId = "0", !.color = "#ffffff"]
    ELSE [lb EXCEPT !.text = newText]

\* onMouseDown of the text input of the label at position i: the middle
\* button deletes the label, any other button puts the caret in the input
InputMouseDown(i, button) ==
    /\ i \in DOMAIN labels
    /\ HasInput(labels[i])
    /\ IF button = 1
       THEN /\ labels' = calculateLabelLayers(
                             FilterSeq(labels, DOMAIN labels \ {i}))
            /\ selectedLabelId' =
                   IF selectedLabelId = labels[i].id THEN 0 ELSE selectedLabelId
            /\ lastOp' = "inputDown.delete"
       ELSE IF focusedId = labels[i].id
       THEN UNCHANGED <<labels, selectedLabelId, lastOp>>
       ELSE /\ labels' = AfterBlur
            /\ selectedLabelId' = IF BlurDeletes THEN 0 ELSE selectedLabelId
            /\ lastOp' = "inputDown.focus"
    /\ UNCHANGED <<appVars, duration, currentTime, loadVars, viewVars,
                   dragStart, creatingLabel, resizingLabel, draggedLabel>>
    /\ focusedId' = FocusAfterRender(IF button = 1 THEN focusedId ELSE labels[i].id)
    /\ UNCHANGED <<paintVars, deckVars>>
    /\ PlayerEffect

\* onChange of the focused text input: the user edits the text to newText
InputChange(i, newText) ==
    /\ i \in DOMAIN labels
    /\ focusedId = labels[i].id
    /\ newText # labels[i].text
    /\ labels' = calculateLabelLayers(
                     [labels EXCEPT ![i] = Retexted(labels[i], newText)])
    /\ lastOp' = IF FindMatchingConfig(newText) # 0 THEN "inputChange.rebind"
                 ELSE IF Retexted(labels[i], newText).configId # labels[i].configId
                 THEN "inputChange.revert"
                 ELSE "inputChange.text"
    /\ UNCHANGED <<selectedLabelId, appVars, duration, currentTime, loadVars,
                   viewVars, dragStart, creatingLabel, resizingLabel, draggedLabel>>
    /\ focusedId' = FocusAfterRender(focusedId)
    /\ UNCHANGED <<paintVars, deckVars>>
    /\ PlayerEffect

\* onKeyDown of the focused text input with Enter or Escape: deselects and
\* blurs the input, whose onBlur then runs
InputKeyDown(i) ==
    /\ i \in DOMAIN labels
    /\ focusedId = labels[i].id
    /\ labels' = AfterBlur
    /\ selectedLabelId' = 0
    /\ lastOp' = IF BlurDeletes THEN "blur.delete" ELSE "inputKey.blur"
    /\ UNCHANGED <<appVars, duration, currentTime, loadVars, viewVars,
                   dragStart, creatingLabel, resizingLabel, draggedLabel>>
    /\ focusedId' = FocusAfterRender(0)
    /\ UNCHANGED <<paintVars, deckVars>>
    /\ PlayerEffect

\* faulty variant: the click removes the selected label, not the clicked one
DeleteButtonClick_selected(i) ==
    /\ i \in DOMAIN labels
    /\ Rendered(labels[i])
    /\ focusedId = 0
    /\ labels' = calculateLabelLayers(
                     FilterSeq(labels, {j \in DOMAIN labels :
                                           labels[j].id # selectedLabelId}))
    /\ selectedLabelId' = 0
    /\ lastOp' = "deleteButton"
    /\ UNCHANGED <<appVars, duration, currentTime, loadVars, viewVars,
                   dragStart, creatingLabel, resizingLabel, draggedLabel>>
    /\ focusedId' = FocusAfterRender(0)
    /\ UNCHANGED <<paintVars, deckVars>>
    /\ PlayerEffect

\* onClick of the delete button of the label at position i; the press that
\* begins the click has taken the focus from the label inputs
DeleteButtonClick(i) ==
    /\ i \in DOMAIN labels
    /\ Rendered(labels[i])
    /\ focusedId = 0
    /\ labels' = calculateLabelLayers(FilterSeq(labels, DOMAIN labels \ {i}))
    /\ selectedLabelId' =
           IF selectedLabelId = labels[i].id THEN 0 ELSE selectedLabelId
    /\ lastOp' = "deleteButton"
    /\ UNCHANGED <<appVars, duration, currentTime, loadVars, viewVars,
                   dragStart, creatingLabel, resizingLabel, draggedLabel>>
    /\ focusedId' = FocusAfterRender(0)
    /\ UNCHANGED <<paintVars, deckVars>>
    /\ PlayerEffect

----------------------------------------------------------------------------
(* App: the category list *)

\* a click on a category, or a digit hotkey (ignored while an input has the
\* focus); the click takes the focus from a focused label input
SetActiveLabelIndex(idx) ==
    /\ idx < Len(labelConfigs)
    /\ idx # activeLabelIndex
    /\ activeLabelIndex' = idx
    /\ labels' = AfterBlur
    /\ selectedLabelId' = IF BlurDeletes THEN 0 ELSE selectedLabelId
    /\ lastOp' = "setActive"
    /\ UNCHANGED <<labelConfigs, duration, currentTime,
                   loadVars, viewVars, dragStart, creatingLabel, resizingLabel,
                   draggedLabel>>
    /\ focusedId' = FocusAfterRender(0)
    /\ UNCHANGED <<paintVars, deckVars>>
    /\ PlayerEffect

\* faulty variant: the digit is taken without looking at the list
KeyDigit_unguarded(idx) ==
    /\ focusedId = 0
    /\ editingLabelIndex = NOT_EDITING
    /\ idx # activeLabelIndex
    /\ activeLabelIndex' = idx
    /\ lastOp' = "keyDigit"
    /\ UNCHANGED <<labels, selectedLabelId, labelConfigs, duration, currentTime,
                   loadVars, viewVars, dragStart, creatingLabel, resizingLabel,
                   draggedLabel, focusedId>>
    /\ UNCHANGED <<paintVars, deckVars>>
    /\ PlayerEffect

\* handleKeyDown with the digit idx, while no input has the keyboard focus
KeyDigit(idx) ==
    /\ focusedId = 0
    /\ editingLabelIndex = NOT_EDITING
    /\ idx # activeLabelIndex
    /\ idx < Len(labelConfigs)
    /\ activeLabelIndex' = idx
    /\ lastOp' = "keyDigit"
    /\ UNCHANGED <<labels, selectedLabelId, labelConfigs, duration, currentTime,
                   loadVars, viewVars, dragStart, creatingLabel, resizingLabel,
                   draggedLabel, focusedId>>
    /\ UNCHANGED <<paintVars, deckVars>>
    /\ PlayerEffect

\* the text was typed into the category input, which took the focus
handleAddLabelConfig(newLabelText) ==
    LET nextIndex == Len(labelConfigs) IN
    /\ IF trim(newLabelText) = "" \/ nextIndex >= MAX_HOTKEYS
       THEN /\ lastOp' = IF BlurDeletes THEN "blur.delete" ELSE lastOp
            /\ UNCHANGED <<labelConfigs, activeLabelIndex>>
       ELSE /\ labelConfigs' = Append(labelConfigs,
                   [key |-> toString(nextIndex), text |-> newLabelText,
                    color |-> HOTKEY_COLORS[nextIndex + 1]])
            /\ activeLabelIndex' = nextIndex
            /\ lastOp' = "addConfig"
    /\ labels' = AfterBlur
    /\ selectedLabelId' = IF BlurDeletes THEN 0 ELSE selectedLabelId
    /\ UNCHANGED <<duration, currentTime, loadVars,
                   viewVars, dragStart, creatingLabel, resizingLabel, draggedLabel>>
    /\ focusedId' = FocusAfterRender(0)
    /\ UNCHANGED <<paintVars, deckVars>>
    /\ PlayerEffect

\* faulty variant: the converted labels keep their color
ConvertLabels_keepColor(ls, k) ==
    [i \in DOMAIN ls |->
        IF ls[i].configId = k THEN [ls[i] EXCEPT !.configId = "0"] ELSE ls[i]]

\* faulty variant: the filter keeps the labels of the deleted category
RemoveLabels_inverted(ls, k) ==
    FilterSeq(ls, {i \in DOMAIN ls : ls[i].configId = k})

\* the labels after the category with key k is deleted and its labels are
\* converted to Custom labels (confirm: OK)
ConvertLabels(ls, k) ==
    [i \in DOMAIN ls |->
        IF ls[i].configId = k
        THEN [ls[i] EXCEPT !.configId = "0", !.color = "#ffffff"]
        ELSE ls[i]]

\* the labels after the category with key k is deleted together with its
\* labels (confirm: Cancel)
RemoveLabels(ls, k) ==
    FilterSeq(ls, {i \in DOMAIN ls : ls[i].configId # k})

\* faulty variant: the remaining categories keep their keys and colors
ReindexConfigs_keepKeys(cs, idx) == FilterSeq(cs, DOMAIN cs \ {idx + 1})

\* labelConfigs without index idx (0-based), keys and colors re-indexed
ReindexConfigs(cs, idx) ==
    LET newConfigs == FilterSeq(cs, DOMAIN cs \ {idx + 1})
    IN [i \in DOMAIN newConfigs |->
           [newConfigs[i] EXCEPT !.key = toString(i - 1),
                                 !.color = HOTKEY_COLORS[i]]]

\* choice is the answer to the confirm() dialog, which is asked only when
\* labels use the category; the click on the category's delete button has
\* taken the focus from a focused label input (ls: the labels after that)
handleDeleteCategory(idx, choice) ==
    LET ls == AfterBlur IN
    /\ idx < Len(labelConfigs)
    /\ IF idx = 0
       THEN /\ labels' = ls
            /\ lastOp' = IF BlurDeletes THEN "blur.delete" ELSE lastOp
            /\ UNCHANGED <<labelConfigs, activeLabelIndex>>
       ELSE LET config == labelConfigs[idx + 1]
                linked == {i \in DOMAIN ls : ls[i].configId = config.key}
            IN /\ IF linked # {}
                  THEN IF choice
                       THEN /\ labels' = calculateLabelLayers(
                                             ConvertLabels(ls, config.key))
                            /\ lastOp' = "deleteCategory.convert"
                       ELSE /\ labels' = calculateLabelLayers(
                                             RemoveLabels(ls, config.key))
                            /\ lastOp' = "deleteCategory.cascade"
                  ELSE /\ choice
                       /\ lastOp' = "deleteCategory.unused"
                       /\ labels' = ls
               /\ labelConfigs' = ReindexConfigs(labelConfigs, idx)
               /\ activeLabelIndex' = 0
    /\ selectedLabelId' = IF BlurDeletes THEN 0 ELSE selectedLabelId
    /\ UNCHANGED <<duration, currentTime, loadVars, viewVars,
                   dragStart, creatingLabel, resizingLabel, draggedLabel>>
    /\ focusedId' = FocusAfterRender(0)
    /\ UNCHANGED <<paintVars, deckVars>>
    /\ PlayerEffect

----------------------------------------------------------------------------
(* The annotation engine: pointer gestures on the spectrogram *)

----------------------------------------------------------------------------
(* App: renaming a category *)

\* a category is being renamed: its rename input is mounted and has the focus
Editing == editingLabelIndex # NOT_EDITING

\* onClick of the Rename button of the category at idx (the default category
\* has none); the click has taken the focus from a focused label input, and
\* the rename input takes it when it mounts
startEditingCategory(idx) ==
    /\ ~Editing
    /\ idx > 0
    /\ idx < Len(labelConfigs)
    /\ editingLabelIndex' = idx
    /\ editingLabelText' = labelConfigs[idx + 1].text
    /\ labels' = AfterBlur
    /\ selectedLabelId' = IF BlurDeletes THEN 0 ELSE selectedLabelId
    /\ lastOp' = "rename.start"
    /\ UNCHANGED <<appVars, duration, currentTime, loadVars, viewVars,
                   dragStart, creatingLabel, resizingLabel, draggedLabel>>
    /\ focusedId' = FocusAfterRender(0)
    /\ UNCHANGED <<paintVars, isPlaying, videoSrc, soundVars, mediaVars,
                   graphVars>>
    /\ PlayerEffect

\* onChange of the rename input
EditingChange(text) ==
    /\ Editing
    /\ text # editingLabelText
    /\ editingLabelText' = text
    /\ lastOp' = "rename.type"
    /\ UNCHANGED <<labels, selectedLabelId, appVars, duration, currentTime,
                   loadVars, viewVars, dragStart, creatingLabel, resizingLabel,
                   draggedLabel, focusedId, editingLabelIndex>>
    /\ UNCHANGED <<paintVars, isPlaying, videoSrc, soundVars, mediaVars,
                   graphVars>>
    /\ PlayerEffect

\* faulty variant: every label takes the new name
Renamed_all(ls, k, newName) ==
    [i \in DOMAIN ls |-> [ls[i] EXCEPT !.text = newName]]

\* labels.map(l => l.configId === config.key ? {...l, text: newName} : l)
Renamed(ls, k, newName) ==
    [i \in DOMAIN ls |->
        IF ls[i].configId = k THEN [ls[i] EXCEPT !.text = newName] ELSE ls[i]]

\* saveEditingCategory: Enter in the rename input, or its onBlur when a press
\* elsewhere takes the focus from it
saveEditingCategory ==
    /\ Editing
    /\ LET idx == editingLabelIndex
           config == labelConfigs[idx + 1]
           newName == trim(editingLabelText)
       IN IF newName # "" /\ newName # config.text
          THEN /\ labelConfigs' = [labelConfigs EXCEPT ![idx + 1].text = newName]
               /\ labels' = calculateLabelLayers(
                                Renamed(labels, config.key, newName))
               /\ lastOp' = "rename.saved"
          ELSE /\ lastOp' = "rename.closed"
               /\ UNCHANGED <<labelConfigs, labels>>
    /\ editingLabelIndex' = NOT_EDITING
    /\ editingLabelText' = ""
    /\ UNCHANGED <<selectedLabelId, activeLabelIndex, duration, currentTime,
                   loadVars, viewVars, dragStart, creatingLabel, resizingLabel,
                   draggedLabel>>
    /\ focusedId' = FocusAfterRender(focusedId)
    /\ UNCHANGED <<paintVars, isPlaying, videoSrc, soundVars, mediaVars,
                   graphVars>>
    /\ PlayerEffect

\* Escape in the rename input: the input is unmounted; React dispatches no
\* blur for an element it removes
CancelEditing ==
    /\ Editing
    /\ editingLabelIndex' = NOT_EDITING
    /\ lastOp' = "rename.cancel"
    /\ UNCHANGED <<labels, selectedLabelId, appVars, duration, currentTime,
                   loadVars, viewVars, dragStart, creatingLabel, resizingLabel,
                   draggedLabel, focusedId, editingLabelText>>
    /\ UNCHANGED <<paintVars, isPlaying, videoSrc, soundVars, mediaVars,
                   graphVars>>
    /\ PlayerEffect

----------------------------------------------------------------------------
(* App: the transport, and the audio graph of VideoPlayer *)

\* the scroll sync effect of Spectrogram while isPlaying: the playhead at
\* time t is kept in the middle of the container, the offset clamped at 0
FollowScroll(t) ==
    Max(0, (t * ViewW * ZoomScale) \div (windowSize * TicksPerSecond)
               - ViewW \div 2)

\* togglePlay: a click on the play button (enabled once a file is chosen),
\* which takes the focus from a focused label input, or the space key while
\* no input has the focus.  play() on an element that has ended starts again
\* from 0, and queues a play event when the element was paused
togglePlay ==
    /\ videoSrc # 0
    /\ IF isPlaying
       THEN /\ paused' = TRUE
            /\ lastOp' = "pause"
            /\ UNCHANGED <<ended, currentTime, playQueued, scrollLeft>>
       ELSE /\ paused' = FALSE
            /\ ended' = FALSE
            /\ currentTime' = IF ended THEN 0 ELSE currentTime
            /\ playQueued' = (playQueued \/ paused)
            /\ scrollLeft' = FollowScroll(currentTime')
            /\ lastOp' = "play"
    /\ isPlaying' = ~isPlaying
    /\ labels' = AfterBlur
    /\ selectedLabelId' = IF BlurDeletes THEN 0 ELSE selectedLabelId
    /\ UNCHANGED <<appVars, duration, loadVars, settingsVars, dragStart,
                   creatingLabel, resizingLabel, draggedLabel>>
    /\ focusedId' = FocusAfterRender(0)
    /\ UNCHANGED <<paintVars, editVars, videoSrc, soundVars, graphVars>>
    /\ PlayerEffect

\* one turn of the requestAnimationFrame loop while the element plays: the
\* playhead follows the element, and the scroll offset the playhead
PlaybackFrame ==
    /\ isPlaying
    /\ ~paused
    /\ currentTime < duration
    /\ currentTime' = currentTime + 1
    /\ scrollLeft' = FollowScroll(currentTime')
    /\ lastOp' = "frame"
    /\ UNCHANGED <<labels, selectedLabelId, appVars, duration, loadVars,
                   settingsVars, dragStart, creatingLabel, resizingLabel,
                   draggedLabel, focusedId>>
    /\ UNCHANGED <<paintVars, deckVars>>
    /\ PlayerEffect

\* the element reaches the end of the media: it pauses itself and dispatches
\* timeupdate, pause and ended.  No listener is registered for pause or
\* ended, and onTimeUpdate does nothing while isPlaying
MediaEnds ==
    /\ ~paused
    /\ duration > 0
    /\ currentTime >= duration
    /\ paused' = TRUE
    /\ ended' = TRUE
    /\ lastOp' = "ended"
    /\ UNCHANGED <<labels, selectedLabelId, appVars, duration, currentTime,
                   loadVars, viewVars, dragStart, creatingLabel, resizingLabel,
                   draggedLabel, focusedId>>
    /\ UNCHANGED <<paintVars, editVars, isPlaying, videoSrc, soundVars,
                   playQueued, graphVars, initializedRef>>

\* faulty variant: the nodes are created whenever the graph is set up
handlePlay_again(ok) ==
    /\ playQueued
    /\ videoSrc # 0
    /\ ok \/ ~audioCtxRef
    /\ playQueued' = FALSE
    /\ IF ~initializedRef /\ ok
       THEN /\ audioCtxRef' = TRUE
            /\ sourceNodeRef' = TRUE
            /\ nodesCreated' = nodesCreated + 1
            /\ initializedRef' = TRUE
            /\ gainNodeRef' = [on |-> TRUE,
                               gain |-> IF muted THEN 0 ELSE volume]
       ELSE UNCHANGED <<graphVars, initializedRef>>
    /\ lastOp' = "playEvent"
    /\ UNCHANGED <<labels, selectedLabelId, appVars, duration, currentTime,
                   loadVars, viewVars, dragStart, creatingLabel, resizingLabel,
                   draggedLabel, focusedId>>
    /\ UNCHANGED <<paintVars, editVars, isPlaying, videoSrc, soundVars,
                   paused, ended>>

\* handlePlay, the listener of the element's play event.  ok: the
\* AudioContext can be constructed (it is constructed once only); when the
\* constructor throws, the catch clause leaves the refs as they are
handlePlay(ok) ==
    /\ playQueued
    /\ videoSrc # 0
    /\ ok \/ ~audioCtxRef
    /\ playQueued' = FALSE
    /\ IF ~initializedRef /\ ok
       THEN /\ audioCtxRef' = TRUE
            /\ sourceNodeRef' = TRUE
            /\ nodesCreated' =
                   IF sourceNodeRef THEN nodesCreated ELSE nodesCreated + 1
            /\ initializedRef' = TRUE
            /\ gainNodeRef' = [on |-> TRUE,
                               gain |-> IF muted THEN 0 ELSE volume]
       ELSE UNCHANGED <<graphVars, initializedRef>>
    /\ lastOp' = "playEvent"
    /\ UNCHANGED <<labels, selectedLabelId, appVars, duration, currentTime,
                   loadVars, viewVars, dragStart, creatingLabel, resizingLabel,
                   draggedLabel, focusedId>>
    /\ UNCHANGED <<paintVars, editVars, isPlaying, videoSrc, soundVars,
                   paused, ended>>

\* VideoPlayer's volume effect, run after a render in which volume or muted
\* has changed, once the video element exists
VolumeEffect ==
    gainNodeRef' =
        IF videoSrc # 0 /\ gainNodeRef.on /\ soundVars' # soundVars
        THEN [gainNodeRef EXCEPT !.gain = IF muted' THEN 0 ELSE volume']
        ELSE gainNodeRef

\* handleVolumeChange: onChange of the volume slider (min 0, max 4, step
\* 0.05; it shows 0 while muted) at position v, hundredths; the slider has
\* taken the focus
handleVolumeChange(v) ==
    /\ v \in 0..(MAX_VOLUME * VolumeScale)
    /\ v % VOLUME_STEP = 0
    /\ v # (IF muted THEN 0 ELSE volume)
    /\ volume' = IF v > 95 /\ v < 105 THEN 1 * VolumeScale ELSE v
    /\ muted' = FALSE
    /\ labels' = AfterBlur
    /\ selectedLabelId' = IF BlurDeletes THEN 0 ELSE selectedLabelId
    /\ lastOp' = "volume"
    /\ UNCHANGED <<appVars, duration, currentTime, loadVars, viewVars,
                   dragStart, creatingLabel, resizingLabel, draggedLabel>>
    /\ focusedId' = FocusAfterRender(0)
    /\ UNCHANGED <<paintVars, editVars, isPlaying, videoSrc, mediaVars,
                   audioCtxRef, sourceNodeRef, nodesCreated>>
    /\ VolumeEffect
    /\ PlayerEffect

\* a click on the mute button, which takes the focus from a focused label
\* input, or the key m while no input has the focus
ToggleMuted ==
    /\ muted' = ~muted
    /\ labels' = AfterBlur
    /\ selectedLabelId' = IF BlurDeletes THEN 0 ELSE selectedLabelId
    /\ lastOp' = "mute"
    /\ UNCHANGED <<appVars, duration, currentTime, loadVars, viewVars,
                   dragStart, creatingLabel, resizingLabel, draggedLabel>>
    /\ focusedId' = FocusAfterRender(0)
    /\ UNCHANGED <<paintVars, editVars, isPlaying, videoSrc, volume, mediaVars,
                   audioCtxRef, sourceNodeRef, nodesCreated>>
    /\ VolumeEffect
    /\ PlayerEffect

\* handleKeyDown with Delete or Backspace while no input has the focus
KeyDelete ==
    /\ focusedId = 0
    /\ ~Editing
    /\ selectedLabelId # 0
    /\ labels' = calculateLabelLayers(
                     FilterSeq(labels, {j \in DOMAIN labels :
                                           labels[j].id # selectedLabelId}))
    /\ selectedLabelId' = 0
    /\ lastOp' = "keyDelete"
    /\ UNCHANGED <<appVars, duration, currentTime, loadVars, viewVars,
                   dragStart, creatingLabel, resizingLabel, draggedLabel>>
    /\ focusedId' = FocusAfterRender(0)
    /\ UNCHANGED <<paintVars, deckVars>>
    /\ PlayerEffect

\* a button goes down somewhere in the container
Press ==
    \/ \E x \in PointerXs, b \in Buttons : HandleMouseDown(x, b)
    \/ \E i \in 1..MaxLabels, x \in PointerXs, b \in Buttons : LabelMouseDown(i, x, b)
    \/ \E i \in 1..MaxLabels, side \in {"start", "end"} : HandleDown(i, side)

\* One button at a time: a button goes down only when no gesture is in
\* progress
Next ==
    \/ OnDurationChange
    \/ Quiet /\ Press
    \/ \E x \in PointerXs : HandleMouseMove(x)
    \/ HandleMouseUp
    \/ \E i \in 1..MaxLabels, text \in LabelTexts : InputChange(i, text)

Spec == Init /\ [][Next]_vars

\* Chords: a second button may go down while a gesture is in progress
ChordNext ==
    \/ OnDurationChange
    \/ \E x \in PointerXs, b \in Buttons :
           Len(labels) < MaxChordLabels /\ HandleMouseDown(x, b)
    \/ \E i \in 1..MaxLabels, x \in PointerXs, b \in Buttons : LabelMouseDown(i, x, b)
    \/ \E i \in 1..MaxLabels, side \in {"start", "end"} : HandleDown(i, side)
    \/ \E x \in PointerXs : HandleMouseMove(x)
    \/ HandleMouseUp
    \/ \E i \in 1..MaxLabels, text \in LabelTexts : InputChange(i, text)

ChordSpec == Init /\ [][ChordNext]_vars

\* The category list, with labels created on the canvas
CatNext ==
    \/ OnDurationChange
    \/ \E x \in CatXs : Quiet /\ HandleMouseDown(x, 0)
    \/ \E x \in CatXs : HandleMouseMove(x)
    \/ HandleMouseUp
    \/ \E idx \in 0..(MaxConfigs - 1) : SetActiveLabelIndex(idx)
    \/ \E text \in CategoryNames \cup {""} :
           /\ ~(trim(text) # "" /\ Len(labelConfigs) >= MaxConfigs)
           /\ handleAddLabelConfig(text)
    \/ \E idx \in 0..(MaxConfigs - 1), choice \in BOOLEAN :
           handleDeleteCategory(idx, choice)

CatSpec == Init /\ [][CatNext]_vars

----------------------------------------------------------------------------
(* Spectrogram.handleWheel and the settings panel of App *)

\* the media duration in the unit of windowSize
DurationInZoomUnits == (duration * ZoomScale) \div TicksPerSecond

\* Math.max(1, Math.min(newWindowSize, 60, duration || 60))
\* faulty variant: the lower clamp is missing
ClampZoom_noLower(w) ==
    Min(Min(w, 60 * ZoomScale),
        IF duration = 0 THEN 60 * ZoomScale ELSE DurationInZoomUnits)

ClampZoom(w) ==
    Max(1 * ZoomScale,
        Min(Min(w, 60 * ZoomScale),
            IF duration = 0 THEN 60 * ZoomScale ELSE DurationInZoomUnits))

\* onWheel of the container at pointer column x: with ctrl/meta held it
\* zooms about the pointer (deltaY > 0: out), otherwise it pans by delta
\* pixels.  The wheel leaves the keyboard focus where it is.
HandleWheel(x, delta, ctrlKey) ==
    /\ delta # 0
    /\ IF ctrlKey
       THEN LET newWindowSize ==
                    ClampZoom(IF delta > 0 THEN (windowSize * 11) \div 10
                              ELSE (windowSize * 10) \div 11)
                maxScroll ==
                    Max(0, (duration * ViewW * ZoomScale)
                               \div (newWindowSize * TicksPerSecond) - ViewW)
                newScrollLeft ==
                    ((scrollLeft + x) * windowSize) \div newWindowSize - x
            IN /\ windowSize' = newWindowSize
               /\ scrollLeft' = Max(0, Min(newScrollLeft, maxScroll))
               /\ lastOp' = "wheel.zoom"
       ELSE LET maxScroll ==
                    Max(0, (duration * ViewW * ZoomScale)
                               \div (windowSize * TicksPerSecond) - ViewW)
            IN /\ scrollLeft' = Max(0, Min(scrollLeft + delta, maxScroll))
               /\ lastOp' = IF scrollLeft' = scrollLeft THEN lastOp ELSE "wheel.pan"
               /\ UNCHANGED windowSize
    /\ UNCHANGED <<labels, selectedLabelId, appVars, duration, currentTime,
                   loadVars, freqVars, dragStart, creatingLabel, resizingLabel,
                   draggedLabel>>
    /\ focusedId' = FocusAfterRender(focusedId)
    /\ UNCHANGED <<paintVars, deckVars>>
    /\ PlayerEffect

\* onChange of the Window Size slider (min 1, max 60, step 1), which has
\* taken the focus
SliderChange(v) ==
    /\ v \in MIN_ZOOM_SEC..MAX_ZOOM_SEC
    /\ v * ZoomScale # windowSize
    /\ windowSize' = v * ZoomScale
    /\ labels' = AfterBlur
    /\ selectedLabelId' = IF BlurDeletes THEN 0 ELSE selectedLabelId
    /\ lastOp' = "slider"
    /\ UNCHANGED <<appVars, duration, currentTime, loadVars, freqVars, scrollLeft,
                   dragStart, creatingLabel, resizingLabel, draggedLabel>>
    /\ focusedId' = FocusAfterRender(0)
    /\ UNCHANGED <<paintVars, deckVars>>
    /\ PlayerEffect

\* onChange of the Min (Hz) field with a numeral that parses to v
SetMinFreq(v) ==
    /\ minFreq' = Max(0, v)
    /\ labels' = AfterBlur
    /\ selectedLabelId' = IF BlurDeletes THEN 0 ELSE selectedLabelId
    /\ lastOp' = "minFreq"
    /\ UNCHANGED <<appVars, duration, currentTime, loadVars, windowSize, maxFreq,
                   scrollLeft, dragStart, creatingLabel, resizingLabel,
                   draggedLabel>>
    /\ focusedId' = FocusAfterRender(0)
    /\ UNCHANGED <<paintVars, deckVars>>
    /\ PlayerEffect

\* onChange of the Max (Hz) field with a numeral that parses to v
SetMaxFreq(v) ==
    /\ maxFreq' = v
    /\ labels' = AfterBlur
    /\ selectedLabelId' = IF BlurDeletes THEN 0 ELSE selectedLabelId
    /\ lastOp' = "maxFreq"
    /\ UNCHANGED <<appVars, duration, currentTime, loadVars, windowSize, minFreq,
                   scrollLeft, dragStart, creatingLabel, resizingLabel,
                   draggedLabel>>
    /\ focusedId' = FocusAfterRender(0)
    /\ UNCHANGED <<paintVars, deckVars>>
    /\ PlayerEffect

----------------------------------------------------------------------------
(* App.handleFileUpload: an async function; every invocation runs up to its *)
(* first await at once and resumes when the awaited promise settles         *)

\* The files offered: the sample rate and the number of samples of the
\* decoded audio; the first is shorter than one FFT frame, the second is
\* exactly one frame long
Files ==
    { [sampleRate |-> 8000,  length |-> 512],
      [sampleRate |-> 8000,  length |-> 1024],
      [sampleRate |-> 44100, length |-> 769024] }

\* A JavaScript number that is an integer, an infinity or NaN
Finite(n) == [kind |-> "finite", n |-> n]
NotFinite(kind) == [kind |-> kind, n |-> 0]

\* width = Math.floor((length - fftSize) / hopSize): a division by zero
\* gives an infinity or NaN
SpecWidth(length, fftSize, hopSize) ==
    IF hopSize > 0 THEN Finite((length - fftSize) \div hopSize)
    ELSE IF hopSize < 0 THEN Finite((fftSize - length) \div (-hopSize))
    ELSE IF length > fftSize THEN NotFinite("Infinity")
    ELSE IF length < fftSize THEN NotFinite("-Infinity")
    ELSE NotFinite("NaN")

\* height = fftSize / 2
SpecHeight(fftSize) == fftSize \div 2

\* new Uint8Array(width * height) throws a RangeError for a negative or an
\* infinite length; NaN is taken as 0
AllocThrows(width, height) ==
    \/ width.kind \in {"Infinity", "-Infinity"}
    \/ width.kind = "finite" /\ width.n * height < 0

\* outputData.length
BufferLength(width, height) ==
    IF width.kind = "finite" THEN width.n * height ELSE 0

\* an index of subarray: negative ones count from the end, all are clamped
RelativeIndex(i, length) ==
    IF i < 0 THEN (IF length + i > 0 THEN length + i ELSE 0)
    ELSE IF i < length THEN i ELSE length

\* channelData.subarray(startIdx, startIdx + fftSize).length
ChunkLength(length, fftSize, startIdx) ==
    LET begin == RelativeIndex(startIdx, length)
        end   == RelativeIndex(startIdx + fftSize, length)
    IN  IF end > begin THEN end - begin ELSE 0

\* the first column at which the loop would break on a short chunk, -1 when
\* there is none: column 0 starts at sample 0, and for a positive hop the
\* chunks are full as long as col * hopSize + fftSize <= length
FirstShort(length, fftSize, hopSize) ==
    IF ChunkLength(length, fftSize, 0) < fftSize THEN 0
    ELSE IF hopSize > 0 THEN (length - fftSize) \div hopSize + 1
    ELSE -1

\* the number of columns the loop has analysed when it ends: it runs while
\* col < width and breaks at a short chunk
LoopEnd(length, fftSize, hopSize) ==
    LET width == SpecWidth(length, fftSize, hopSize)
        short == FirstShort(length, fftSize, hopSize)
    IN  IF width.kind # "finite" \/ width.n <= 0 THEN 0
        ELSE IF short >= 0 /\ short < width.n THEN short
        ELSE width.n

\* the call generateSpectrogramData(decodedBuffer, settings.fftSize) of a load
WidthOf(load) == SpecWidth(load.file.length, load.fftSize, load.hopSize)
HeightOf(load) == SpecHeight(load.fftSize)
EndOf(load) == LoopEnd(load.file.length, load.fftSize, load.hopSize)

\* the first column at or after column c after which the loop yields
NextYield_late(c) == ((c + 2 * YIELD_EVERY - 1) \div YIELD_EVERY) * YIELD_EVERY

NextYield(c) == ((c + YIELD_EVERY - 1) \div YIELD_EVERY) * YIELD_EVERY

\* generateSpectrogramData, resumed with c columns written, runs to its
\* return without yielding again
\* faulty variant: the field is handed over at a yield
Returns_atYield(c, width) == TRUE

Returns(c, width) == NextYield(c) >= width

\* the columns written when the loop next yields or returns
RunLoop(c, width) == IF NextYield(c) >= width THEN width ELSE NextYield(c) + 1

\* the part up to the first await; the file dialog has taken the focus
StartLoad(hasFile) ==
    /\ IF ~hasFile
       THEN /\ labels' = AfterBlur
            /\ selectedLabelId' = IF BlurDeletes THEN 0 ELSE selectedLabelId
            /\ lastOp' = IF BlurDeletes THEN "blur.delete" ELSE lastOp
            /\ UNCHANGED <<loadVars, isPlaying, videoSrc, mediaVars>>
       ELSE /\ Len(loads) < MaxLoads
            /\ labels' = << >>
            /\ isPlaying' = FALSE
            /\ videoSrc' = Len(loads) + 1
            /\ paused' = TRUE
            /\ ended' = FALSE
            /\ UNCHANGED playQueued
            /\ audioBuffer' = 0
            /\ specData' = 0
            /\ spectrogramError' = 0
            /\ selectedLabelId' = 0
            /\ isProcessing' = TRUE
            /\ \E f \in Files :
                  loads' = Append(loads, [pc |-> "decode", file |-> f,
                                          fftSize |-> FFT_SIZE,
                                          hopSize |-> HOP_SIZE,
                                          written |-> 0, error |-> ""])
            /\ lastOp' = "upload.start"
    /\ UNCHANGED <<appVars, duration, currentTime, viewVars, dragStart,
                   creatingLabel, resizingLabel, draggedLabel>>
    /\ focusedId' = FocusAfterRender(0)
    /\ UNCHANGED <<paintVars, editVars, soundVars, graphVars>>
    /\ PlayerEffect

\* file.arrayBuffer() and decodeAudioData of load l settle: resolved (ok) or
\* rejected.  When resolved, generateSpectrogramData is called and runs up
\* to its first yield: it throws when the buffer cannot be allocated, and
\* returns at once when the loop ends before its first yield.
DecodeSettles(l, ok) ==
    /\ l \in DOMAIN loads
    /\ loads[l].pc = "decode"
    /\ IF ok
       THEN LET end == EndOf(loads[l]) IN
            /\ audioBuffer' = l
            /\ maxFreq' = loads[l].file.sampleRate \div 2
            /\ IF AllocThrows(WidthOf(loads[l]), HeightOf(loads[l]))
               THEN /\ spectrogramError' = l
                    /\ isProcessing' = FALSE
                    /\ loads' = [loads EXCEPT ![l].pc = "failed",
                                              ![l].error = "RangeError"]
                    /\ lastOp' = "upload.failed"
                    /\ UNCHANGED specData
               ELSE IF Returns(0, end)
               THEN /\ specData' = l
                    /\ isProcessing' = FALSE
                    /\ loads' = [loads EXCEPT ![l].pc = "done",
                                              ![l].written = RunLoop(0, end)]
                    /\ lastOp' = "upload.published"
                    /\ UNCHANGED spectrogramError
               ELSE /\ loads' = [loads EXCEPT ![l].pc = "analyse",
                                              ![l].written = RunLoop(0, end)]
                    /\ lastOp' = "upload.decoded"
                    /\ UNCHANGED <<specData, spectrogramError, isProcessing>>
       ELSE /\ spectrogramError' = l
            /\ isProcessing' = FALSE
            /\ loads' = [loads EXCEPT ![l].pc = "failed",
                                      ![l].error = "decode"]
            /\ lastOp' = "upload.failed"
            /\ UNCHANGED <<specData, audioBuffer, maxFreq>>
    /\ UNCHANGED <<labels, selectedLabelId, appVars, duration, currentTime,
                   windowSize, minFreq, scrollLeft, dragStart, creatingLabel,
                   resizingLabel, draggedLabel, focusedId>>
    /\ UNCHANGED <<paintVars, deckVars>>
    /\ PlayerEffect

\* generateSpectrogramData of load l resumes after a yield and yields again
AnalysisYields(l) ==
    /\ l \in DOMAIN loads
    /\ loads[l].pc = "analyse"
    /\ ~Returns(loads[l].written, EndOf(loads[l]))
    /\ loads' = [loads EXCEPT
                    ![l].written = RunLoop(loads[l].written, EndOf(loads[l]))]
    /\ lastOp' = "upload.yield"
    /\ UNCHANGED <<labels, selectedLabelId, appVars, duration, currentTime,
                   specData, spectrogramError, isProcessing, audioBuffer,
                   viewVars, dragStart, creatingLabel, resizingLabel,
                   draggedLabel, focusedId>>
    /\ UNCHANGED <<paintVars, deckVars>>
    /\ PlayerEffect

\* faulty variant: a successful analysis empties the label set again
AnalysisSettles_resetting(l, ok) ==
    /\ l \in DOMAIN loads
    /\ loads[l].pc = "analyse"
    /\ IF ok
       THEN /\ Returns(loads[l].written, EndOf(loads[l]))
            /\ specData' = l
            /\ loads' = [loads EXCEPT
                            ![l].pc = "done",
                            ![l].written =
                                RunLoop(loads[l].written, EndOf(loads[l]))]
            /\ lastOp' = "upload.published"
            /\ labels' = << >>
            /\ selectedLabelId' = 0
            /\ UNCHANGED spectrogramError
       ELSE /\ spectrogramError' = l
            /\ loads' = [loads EXCEPT ![l].pc = "failed",
                                      ![l].error = "analysis"]
            /\ lastOp' = "upload.failed"
            /\ UNCHANGED <<specData, labels, selectedLabelId>>
    /\ isProcessing' = FALSE
    /\ UNCHANGED <<appVars, duration, currentTime,
                   audioBuffer, viewVars, dragStart, creatingLabel,
                   resizingLabel, draggedLabel>>
    /\ focusedId' = FocusAfterRender(focusedId)
    /\ UNCHANGED <<paintVars, deckVars>>
    /\ PlayerEffect

\* generateSpectrogramData of load l settles: it resumes, runs to its end and
\* returns its field (ok), or throws
AnalysisSettles(l, ok) ==
    /\ l \in DOMAIN loads
    /\ loads[l].pc = "analyse"
    /\ IF ok
       THEN /\ Returns(loads[l].written, EndOf(loads[l]))
            /\ specData' = l
            /\ loads' = [loads EXCEPT
                            ![l].pc = "done",
                            ![l].written =
                                RunLoop(loads[l].written, EndOf(loads[l]))]
            /\ lastOp' = "upload.published"
            /\ UNCHANGED spectrogramError
       ELSE /\ spectrogramError' = l
            /\ loads' = [loads EXCEPT ![l].pc = "failed",
                                      ![l].error = "analysis"]
            /\ lastOp' = "upload.failed"
            /\ UNCHANGED specData
    /\ isProcessing' = FALSE
    /\ UNCHANGED <<labels, selectedLabelId, appVars, duration, currentTime,
                   audioBuffer, viewVars, dragStart, creatingLabel,
                   resizingLabel, draggedLabel, focusedId>>
    /\ UNCHANGED <<paintVars, deckVars>>
    /\ PlayerEffect

LoadNext ==
    \/ \E hasFile \in BOOLEAN : StartLoad(hasFile)
    \/ \E l \in 1..MaxLoads, ok \in BOOLEAN : DecodeSettles(l, ok)
    \/ \E l \in 1..MaxLoads : AnalysisYields(l)
    \/ \E l \in 1..MaxLoads, ok \in BOOLEAN : AnalysisSettles(l, ok)

LoadSpec == Init /\ [][LoadNext]_vars

\* File loads and edits of the frequency range
FreqNext ==
    \/ LoadNext
    \/ \E v \in FreqInputs : SetMinFreq(v)
    \/ \E v \in FreqInputs : SetMaxFreq(v)

FreqSpec == Init /\ [][FreqNext]_vars

----------------------------------------------------------------------------
(* The picture: drawSpectrogramChunk and Spectrogram.draw.  The canvas is   *)
(* followed at the pixels DrawXs x 0..CanvasH-1; a pixel holds the index    *)
(* into the colour table painted there by putImageData, or Clear.  What     *)
(* draw() strokes over the image afterwards (playhead, axes, ruler) is not  *)
(* held in it.  Real numbers are held as exact integer multiples; the       *)
(* rounding of floating-point arithmetic is not modelled.                   *)

\* the intensity the analysis computes for bin `bin` of column `col`; the
\* samples of the audio are not modelled, a pattern stands for the result
\* of the transform
BinIntensity(col, bin) == (col * 37 + bin * 101 + 50) % (MAX_BYTE + 1)

\* outputData[col * height + (height - 1 - bin)] = intensity
\* faulty variant: bin 0 is stored in row 0
StoreIndex_noFlip(col, bin, height) == col * height + bin

StoreIndex(col, bin, height) == col * height + (height - 1 - bin)

\* outputData[i] of a load: the intensity of the bin stored there if the
\* loop has written the column, 0 as allocated otherwise
Cell(load, i) ==
    LET height == HeightOf(load)
        col    == i \div height
        Stored(bin) == StoreIndex(col, bin, height) = i
    IN  IF col < load.written /\ \E bin \in 0..(height - 1) : Stored(bin)
        THEN BinIntensity(col, CHOOSE bin \in 0..(height - 1) : Stored(bin))
        ELSE 0

\* the integer part of the q-th root of n
IRoot(n, q) == CHOOSE r \in 0..n : r^q <= n /\ (r + 1)^q > n

\* Math.pow(b, p / q), exact when b is the q-th power of an integer
PowFrac(b, p, q) == IRoot(b, q)^p

\* the integer part of the logarithm of x to the base b, b > 1, x >= 1
ILog(b, x) == CHOOSE k \in 0..31 : b^k <= x /\ b^(k + 1) > x

\* binMap: the frequency shown in canvas row y, multiplied by CanvasH.
\* normY below is normY * canvasHeight.  For the mel scale
\* fromMel(minM + normY * (maxM - minM)) is
\* (700 + minFreq) * ((700 + maxFreq) / (700 + minFreq)) ^ normY - 700.
TargetFreq(y) ==
    LET normY       == CanvasH - y
        safeMinFreq == Max(minFreq, 1)
    IN  CASE frequencyScale = "linear" ->
                 minFreq * CanvasH + normY * (maxFreq - minFreq)
          [] frequencyScale = "log" ->
                 CanvasH * safeMinFreq
                     * PowFrac(maxFreq \div safeMinFreq, normY, CanvasH)
          [] frequencyScale = "mel" ->
                 CanvasH * ((MEL_CORNER + minFreq)
                              * PowFrac((MEL_CORNER + maxFreq)
                                           \div (MEL_CORNER + minFreq),
                                        normY, CanvasH)
                            - MEL_CORNER)

\* binMap[y] = Math.max(0, Math.min(binIndex, specHeight - 1)) with
\* binIndex = Math.floor((targetFreq / nyquist) * specHeight)
BinOfRow(y, load) ==
    LET specHeight == HeightOf(load)
        binIndex   == (TargetFreq(y) * specHeight * 2)
                          \div (CanvasH * load.file.sampleRate)
    IN  Max(0, Min(binIndex, specHeight - 1))

\* renderTick: the canvas row at which the tick of a frequency is put, the
\* frequency being given multiplied by CanvasH; NaN when the range is empty
TickRow(freqH) ==
    LET minSafe == Max(minFreq, 1)
    IN  CASE frequencyScale = "linear" ->
                 IF maxFreq = minFreq THEN NotFinite("NaN")
                 ELSE Finite(CanvasH
                             - (freqH - minFreq * CanvasH) \div (maxFreq - minFreq))
          [] frequencyScale = "log" ->
                 IF IRoot(maxFreq \div minSafe, CanvasH) <= 1
                 THEN NotFinite("NaN")
                 ELSE Finite(CanvasH
                             - ILog(IRoot(maxFreq \div minSafe, CanvasH),
                                    freqH \div (CanvasH * minSafe)))
          [] frequencyScale = "mel" ->
                 IF IRoot((MEL_CORNER + maxFreq) \div (MEL_CORNER + minFreq),
                          CanvasH) <= 1
                 THEN NotFinite("NaN")
                 ELSE Finite(CanvasH
                             - ILog(IRoot((MEL_CORNER + maxFreq)
                                             \div (MEL_CORNER + minFreq),
                                          CanvasH),
                                    (freqH \div CanvasH + MEL_CORNER)
                                        \div (MEL_CORNER + minFreq)))

\* Times of the picture are counted in 1/(ViewW * ZoomScale) seconds, so
\* that a pixel at windowSize w is w units wide; TickScale units make a tick
TickScale == (ViewW * ZoomScale) \div TicksPerSecond

\* startTime = scrollLeft / pixelsPerSecond
\* faulty variant: the picture starts at time 0 whatever the scroll offset
StartTime_noScroll == 0 * windowSize

StartTime == scrollLeft * windowSize

\* t = startTime + x * timePerPixel, timePerPixel = 1 / pixelsPerSecond
PixelTime(x) == StartTime + x * windowSize

\* absoluteX / pixelsPerSecond of getPointerTime, absoluteX = x + scrollLeft
PointerTime(x) == (x + scrollLeft) * windowSize

\* exactCol = (t / totalDuration) * specWidth passes the bounds check
\* exactCol >= 0 && exactCol < specWidth; a duration of 0 makes exactCol
\* NaN or Infinity, which fails it
InField(x, load) ==
    /\ duration > 0
    /\ WidthOf(load).kind = "finite"
    /\ PixelTime(x) * WidthOf(load).n >= 0
    /\ PixelTime(x) * WidthOf(load).n < duration * TickScale * WidthOf(load).n

\* col = Math.floor(exactCol)
ColumnOf(x, load) ==
    (PixelTime(x) * WidthOf(load).n) \div (duration * TickScale)

\* specData[col * specHeight + dataIndex], dataIndex = (specHeight - 1) - actualBin
ReadIndex(col, actualBin, specHeight) ==
    col * specHeight + ((specHeight - 1) - actualBin)

\* Math.floor(val) for a raw intensity: the contrast stretch about 0.5, the
\* clamp to [0, 1], the brightness, the clamp to [0, 255].  nVal is held
\* multiplied by 2 * 255 * Tenths, val by 2 * Tenths * Tenths.
\* faulty variant: brightness and contrast are ignored
Tone_raw(rawIntensity) == rawIntensity

Tone(rawIntensity) ==
    LET stretched == (2 * rawIntensity - MAX_BYTE) * contrast + MAX_BYTE * Tenths
        nVal      == Max(0, Min(stretched, 2 * MAX_BYTE * Tenths))
        val       == nVal * intensity
    IN  Max(0, Min(val, MAX_BYTE * 2 * Tenths * Tenths)) \div (2 * Tenths * Tenths)

\* ctx.createImageData: a new image, transparent everywhere
\* faulty variant: the image starts from the negative of what the canvas
\* shows
FreshImage_negative ==
    [p \in Pixels |-> IF canvas.px[p] = CLEAR THEN FILLED ELSE CLEAR]

FreshImage == [p \in Pixels |-> CLEAR]

\* the image drawSpectrogramChunk puts on the canvas for the field of a load
drawSpectrogramChunk(load) ==
    [p \in Pixels |->
        IF InField(p[1], load)
        THEN Tone(Cell(load, ReadIndex(ColumnOf(p[1], load),
                                       BinOfRow(p[2], load), HeightOf(load))))
        ELSE FreshImage[p]]

\* the placeholder: a filled background with a vertical line every
\* GRID_STEP pixels
Placeholder ==
    [p \in Pixels |-> IF p[1] % GRID_STEP = 0 THEN GRID_LINE ELSE FILLED]

\* draw(), run in an animation frame: the canvas is cleared, then the
\* spectrogram is drawn if there is a field, the placeholder if there is
\* none, a duration is known and no analysis is under way
Picture ==
    IF specData # 0
    THEN [kind |-> "spectrogram", px |-> drawSpectrogramChunk(loads[specData])]
    ELSE IF duration > 0 /\ ~isProcessing
    THEN [kind |-> "placeholder", px |-> Placeholder]
    ELSE [kind |-> "blank", px |-> [p \in Pixels |-> CLEAR]]

\* requestAnimationFrame(draw)
Draw ==
    /\ canvas' = Picture
    /\ lastOp' = "draw"
    /\ UNCHANGED <<labels, selectedLabelId, appVars, duration, currentTime,
                   loadVars, viewVars, dragStart, creatingLabel, resizingLabel,
                   draggedLabel, focusedId, lookVars, deckVars,
                   initializedRef>>

\* onChange of the Brightness slider at position v (tenths)
SetIntensity(v) ==
    /\ v \in MIN_INTENSITY..MAX_LOOK
    /\ v # intensity
    /\ intensity' = v
    /\ labels' = AfterBlur
    /\ selectedLabelId' = IF BlurDeletes THEN 0 ELSE selectedLabelId
    /\ lastOp' = "intensity"
    /\ UNCHANGED <<appVars, duration, currentTime, loadVars, viewVars,
                   dragStart, creatingLabel, resizingLabel, draggedLabel,
                   contrast, frequencyScale, canvas, deckVars>>
    /\ focusedId' = FocusAfterRender(0)
    /\ PlayerEffect

\* onChange of the Contrast slider at position v (tenths)
SetContrast(v) ==
    /\ v \in MIN_CONTRAST..MAX_LOOK
    /\ v # contrast
    /\ contrast' = v
    /\ labels' = AfterBlur
    /\ selectedLabelId' = IF BlurDeletes THEN 0 ELSE selectedLabelId
    /\ lastOp' = "contrast"
    /\ UNCHANGED <<appVars, duration, currentTime, loadVars, viewVars,
                   dragStart, creatingLabel, resizingLabel, draggedLabel,
                   intensity, frequencyScale, canvas, deckVars>>
    /\ focusedId' = FocusAfterRender(0)
    /\ PlayerEffect

\* File loads, the media element reporting its duration, and draws
ShowNext ==
    \/ LoadNext
    \/ OnDurationChange
    \/ Draw

ShowSpec == Init /\ [][ShowNext]_vars

----------------------------------------------------------------------------
(* generateSpectrogramData on its own: one call, whose arguments are drawn *)
(* from small sets, is followed from its start to its end                  *)

FftSizes == {2, 4, 6, 8}                    \* fftSize
HopSizes == {-1, 0, 1, 2, 3}                \* hopSize
SampleCounts == (0..10) \cup {1003, 2100}   \* channelData.length

AnalyzerInit ==
    /\ \E fft \in FftSizes, hop \in HopSizes, n \in SampleCounts :
          loads = << [pc |-> "decode",
                      file |-> [sampleRate |-> 8000, length |-> n],
                      fftSize |-> fft, hopSize |-> hop,
                      written |-> 0, error |-> ""] >>
    /\ labels = << >>
    /\ selectedLabelId = 0
    /\ labelConfigs = DEFAULT_LABEL_CONFIGS
    /\ activeLabelIndex = 0
    /\ duration = 0
    /\ currentTime = 0
    /\ windowSize = DEFAULT_ZOOM_SEC * ZoomScale
    /\ minFreq = 0
    /\ maxFreq = DEFAULT_MAX_FREQ
    /\ specData = 0
    /\ spectrogramError = 0
    /\ isProcessing = TRUE
    /\ audioBuffer = 0
    /\ scrollLeft = 0
    /\ dragStart = NoDragStart
    /\ creatingLabel = NoCreating
    /\ resizingLabel = NoResizing
    /\ draggedLabel = NoDragged
    /\ focusedId = 0
    /\ intensity = DEFAULT_INTENSITY
    /\ contrast = DEFAULT_CONTRAST
    /\ frequencyScale = "linear"
    /\ canvas = NoCanvas
    /\ PlayerInit(1)
    /\ lastOp = "upload.start"

\* the call runs to its first yield, from yield to yield, and to its return
AnalyzerNext ==
    \/ DecodeSettles(1, TRUE)
    \/ AnalysisYields(1)
    \/ AnalysisSettles(1, TRUE)

AnalyzerSpec == AnalyzerInit /\ [][AnalyzerNext]_vars

\* every yield is a timer of 0 ms that the event loop runs, so a call that
\* has yielded is resumed
AnalyzerFairSpec ==
    /\ AnalyzerSpec
    /\ WF_vars(AnalysisYields(1))
    /\ WF_vars(AnalysisSettles(1, TRUE))

----------------------------------------------------------------------------
(* Drawing on its own: a field has been published and the view (frequency  *)
(* scale and range, scroll offset, window) is drawn from small sets; the   *)
(* picture is drawn and the brightness and the contrast are changed.  The  *)
(* frequency ranges are such that the powers and logarithms of the log and *)
(* mel scales are taken of exact powers; each scale has one empty range.   *)

RenderViews ==
    { <<"linear", 0, 4000>>, <<"linear", 1000, 3000>>, <<"linear", 4000, 4000>>,
      <<"log", 0, 1600>>,    <<"log", 100, 1600>>,     <<"log", 1600, 1600>>,
      <<"mel", 0, 2100>>,    <<"mel", 100, 2500>>,     <<"mel", 2100, 2100>> }
RenderLengths == {16, 28}           \* samples of the file analysed
RenderScrolls == {0, 20, 40}        \* scrollLeft
RenderWindows == {10, 50}           \* settings.windowSize, 1/ZoomScale s
RULER_TICKS == {0, 10, 40}          \* times of ticks of the time ruler, ticks

RenderInit ==
    /\ \E n \in RenderLengths :
          loads = << [pc |-> "done",
                      file |-> [sampleRate |-> 8000, length |-> n],
                      fftSize |-> 8, hopSize |-> 4,
                      written |-> LoopEnd(n, 8, 4), error |-> ""] >>
    /\ \E v \in RenderViews :
          /\ frequencyScale = v[1]
          /\ minFreq = v[2]
          /\ maxFreq = v[3]
    /\ scrollLeft \in RenderScrolls
    /\ windowSize \in RenderWindows
    /\ labels = << [id |-> 1, configId |-> "0", start |-> 1, end |-> 4,
                    text |-> "x", color |-> "#ffffff", layerIndex |-> 0] >>
    /\ selectedLabelId = 0
    /\ labelConfigs = DEFAULT_LABEL_CONFIGS
    /\ activeLabelIndex = 0
    /\ duration = MediaDuration
    /\ currentTime = 0
    /\ specData = 1
    /\ spectrogramError = 0
    /\ isProcessing = FALSE
    /\ audioBuffer = 1
    /\ dragStart = NoDragStart
    /\ creatingLabel = NoCreating
    /\ resizingLabel = NoResizing
    /\ draggedLabel = NoDragged
    /\ focusedId = 0
    /\ intensity = DEFAULT_INTENSITY
    /\ contrast = DEFAULT_CONTRAST
    /\ canvas = NoCanvas
    /\ PlayerInit(1)
    /\ lastOp = "init"

RenderNext ==
    \/ Draw
    \/ \E v \in LookValues : SetIntensity(v)
    \/ \E v \in LookValues : SetContrast(v)

RenderSpec == RenderInit /\ [][RenderNext]_vars

----------------------------------------------------------------------------
(* Zooming, and editing the labels' texts *)

ZoomNext ==
    \/ OnDurationChange
    \/ \E x \in ZoomXs, delta \in WheelDeltas, ctrlKey \in BOOLEAN :
           HandleWheel(x, delta, ctrlKey)
    \/ \E v \in SliderValues : SliderChange(v)

ZoomSpec == Init /\ [][ZoomNext]_vars

\* Categories are renamed while labels of theirs are stored.  A press outside
\* the rename input takes the focus from it, so that saveEditingCategory has
\* run before any other handler does
RenameNext ==
    \/ ~Editing /\ OnDurationChange
    \/ \E x \in CatXs : ~Editing /\ Quiet /\ HandleMouseDown(x, 0)
    \/ \E x \in CatXs : ~Editing /\ HandleMouseMove(x)
    \/ ~Editing /\ HandleMouseUp
    \/ \E idx \in 0..(MaxConfigs - 1) : ~Editing /\ SetActiveLabelIndex(idx)
    \/ \E text \in CategoryNames :
           /\ ~Editing
           /\ Len(labelConfigs) < MaxConfigs
           /\ handleAddLabelConfig(text)
    \/ \E idx \in 1..(MaxConfigs - 1) : Quiet /\ startEditingCategory(idx)
    \/ \E text \in RenameTexts : EditingChange(text)
    \/ saveEditingCategory
    \/ CancelEditing

RenameSpec == Init /\ [][RenameNext]_vars

\* The transport: files are chosen and played, the playhead is moved by
\* presses on the spectrogram.  No pan is made, so the scroll offset is the
\* one the scroll sync effect stores
PlayNext ==
    \/ StartLoad(TRUE)
    \/ OnDurationChange
    \/ togglePlay
    \/ PlaybackFrame
    \/ MediaEnds
    \/ \E x \in PointerXs : Quiet /\ HandleMouseDown(x, 0)
    \/ HandleMouseUp

PlaySpec == Init /\ [][PlayNext]_vars

\* The audio graph of VideoPlayer: files are chosen, played and paused, the
\* volume is set and muted
AudioNext ==
    \/ StartLoad(TRUE)
    \/ togglePlay
    \/ \E ok \in BOOLEAN : handlePlay(ok)
    \/ \E v \in VolumeInputs : handleVolumeChange(v)
    \/ ToggleMuted

AudioSpec == Init /\ [][AudioNext]_vars

\* The category list on its own, filled up to the number of hotkeys
PaletteNext ==
    \/ \E text \in CategoryNames \cup {""} : handleAddLabelConfig(text)
    \/ \E idx \in 0..(MAX_HOTKEYS - 1) : handleDeleteCategory(idx, TRUE)
    \/ \E idx \in 0..(MAX_HOTKEYS - 1) : SetActiveLabelIndex(idx)
    \/ \E idx \in 0..(MAX_HOTKEYS - 1) : KeyDigit(idx)

PaletteSpec == Init /\ [][PaletteNext]_vars

\* Labels are drawn, moved, resized and deleted while a file is loaded
WorkNext ==
    \/ OnDurationChange
    \/ \E x \in EditXs : Quiet /\ HandleMouseDown(x, 0)
    \/ \E x \in EditXs : HandleMouseMove(x)
    \/ HandleMouseUp
    \/ \E i \in 1..MaxLabels, x \in EditXs : Quiet /\ LabelMouseDown(i, x, 0)
    \/ \E i \in 1..MaxLabels, side \in {"start", "end"} :
           Quiet /\ HandleDown(i, side)
    \/ \E i \in 1..MaxLabels, text \in LabelTexts : InputChange(i, text)
    \/ \E i \in 1..MaxLabels : DeleteButtonClick(i)
    \/ KeyDelete
    \/ Len(loads) < MaxWorkLoads /\ StartLoad(TRUE)
    \/ \E l \in 1..MaxWorkLoads, ok \in BOOLEAN : DecodeSettles(l, ok)
    \/ \E l \in 1..MaxWorkLoads : AnalysisYields(l)
    \/ \E l \in 1..MaxWorkLoads, ok \in BOOLEAN : AnalysisSettles(l, ok)

WorkSpec == Init /\ [][WorkNext]_vars

EditNext ==
    \/ OnDurationChange
    \/ \E x \in EditXs : Quiet /\ HandleMouseDown(x, 0)
    \/ \E x \in EditXs : HandleMouseMove(x)
    \/ HandleMouseUp
    \/ \E text \in EditNames :
           Len(labelConfigs) < MaxConfigs /\ handleAddLabelConfig(text)
    \/ \E idx \in 0..(MaxConfigs - 1) : SetActiveLabelIndex(idx)
    \/ \E i \in 1..MaxLabels, x \in EditXs : LabelMouseDown(i, x, 1)
    \/ \E i \in 1..MaxLabels, b \in {0, 1} : InputMouseDown(i, b)
    \/ \E i \in 1..MaxLabels, text \in EditTexts : InputChange(i, text)
    \/ \E i \in 1..MaxLabels : InputKeyDown(i)
    \/ \E i \in 1..MaxLabels : DeleteButtonClick(i)
    \/ \E v \in EditSliderValues : Quiet /\ SliderChange(v)

EditSpec == Init /\ [][EditNext]_vars

----------------------------------------------------------------------------
(* calculateLabelLayers on its own: the stored labels are drawn from short *)
(* lists over a few intervals and laid out once                            *)

\* the unlaid label lists: every list of at most MaxLayerLabels intervals
LayerInputs ==
    UNION {[1..n -> LayerIntervals] : n \in 0..MaxLayerLabels}

LayerInit ==
    /\ \E in \in LayerInputs :
          labels = [i \in DOMAIN in |->
                       [id |-> i, configId |-> "0", start |-> in[i][1],
                        end |-> in[i][2], text |-> "x", color |-> "#ffffff",
                        layerIndex |-> NO_LAYER]]
    /\ selectedLabelId = 0
    /\ labelConfigs = DEFAULT_LABEL_CONFIGS
    /\ activeLabelIndex = 0
    /\ duration = 0
    /\ currentTime = 0
    /\ windowSize = DEFAULT_ZOOM_SEC * ZoomScale
    /\ minFreq = 0
    /\ maxFreq = DEFAULT_MAX_FREQ
    /\ specData = 0
    /\ spectrogramError = 0
    /\ isProcessing = FALSE
    /\ audioBuffer = 0
    /\ loads = << >>
    /\ scrollLeft = 0
    /\ dragStart = NoDragStart
    /\ creatingLabel = NoCreating
    /\ resizingLabel = NoResizing
    /\ draggedLabel = NoDragged
    /\ focusedId = 0
    /\ intensity = DEFAULT_INTENSITY
    /\ contrast = DEFAULT_CONTRAST
    /\ frequencyScale = "linear"
    /\ canvas = NoCanvas
    /\ PlayerInit(0)
    /\ lastOp = "init"

\* useMemo(() => calculateLabelLayers(labels), [labels])
LayOut ==
    /\ lastOp = "init"
    /\ labels' = calculateLabelLayers(labels)
    /\ lastOp' = "layers"
    /\ UNCHANGED <<selectedLabelId, appVars, duration, currentTime, loadVars,
                   viewVars, dragStart, creatingLabel, resizingLabel,
                   draggedLabel, focusedId>>
    /\ UNCHANGED <<paintVars, deckVars>>
    /\ PlayerEffect

LayerNext == LayOut

LayerSpec == LayerInit /\ [][LayerNext]_vars

----------------------------------------------------------------------------
(* Properties *)

Abs(n) == IF n < 0 THEN -n ELSE n

\* the authoritative fields of a label (layerIndex is derived)
Core(l) == [id |-> l.id, configId |-> l.configId, start |-> l.start,
            end |-> l.end, text |-> l.text, color |-> l.color]

\* C1: the published spectrogram field and the recorded analysis error always
\* belong to the most recently started load: the outcome of an earlier load's
\* analysis is never applied once a newer load has started.
C1_OnlyLatestLoadPublished ==
    /\ specData # 0 => specData = Len(loads)
    /\ spectrogramError # 0 => spectrogramError = Len(loads)

\* C2: at most one of the gesture modes Creating, Resizing and Dragging is
\* active, whatever buttons go down, wherever, in whatever order.
C2_ModesExclusive ==
    Cardinality({m \in {"creating", "resizing", "dragging"} :
                    \/ m = "creating" /\ creatingLabel.on
                    \/ m = "resizing" /\ resizingLabel.on
                    \/ m = "dragging" /\ draggedLabel.on}) <= 1

\* C3: every stored label has start < end, 0 <= start and end <= duration,
\* whatever create, resize and drag gestures were made.
C3_LabelsWithinMedia ==
    \A i \in DOMAIN labels :
        /\ labels[i].start < labels[i].end
        /\ 0 <= labels[i].start
        /\ labels[i].end <= duration

\* C4: after any additions and deletions of categories, the configId of every
\* stored label is the key of a category of labelConfigs.
C4_NoDanglingConfigId ==
    \A i \in DOMAIN labels :
        \E c \in DOMAIN labelConfigs : labelConfigs[c].key = labels[i].configId

\* C5: deleting a category that labels reference, with the reassign policy,
\* leaves no label with the deleted key, and every label that referenced it
\* has configId "0" and color "#ffffff" after that one step; no label is lost.
C5_ReassignConvertsAll ==
    [][\A idx \in 1..(MAX_HOTKEYS - 1) :
         (/\ lastOp' = "deleteCategory.convert"
          /\ idx < Len(labelConfigs)
          /\ \E i \in DOMAIN labels : labels[i].configId = labelConfigs[idx + 1].key
          /\ handleDeleteCategory(idx, TRUE))
         => LET k == labelConfigs[idx + 1].key
                stored == AfterBlur
            IN /\ Len(labels') = Len(stored)
               /\ \A i \in DOMAIN labels' : labels'[i].configId # k
               /\ \A i \in DOMAIN stored :
                     stored[i].configId = k
                     => /\ labels'[i].id = stored[i].id
                        /\ labels'[i].configId = "0"
                        /\ labels'[i].color = "#ffffff"]_vars

\* two labels of a deleted category have just been converted
C5_Witness ==
    /\ lastOp = "deleteCategory.convert"
    /\ Len(labels) = 2
    /\ \A i \in DOMAIN labels :
          /\ labels[i].configId = "0"
          /\ labels[i].color = "#ffffff"
          /\ labels[i].text # ""

\* C6: deleting a category with the cascade policy removes exactly the labels
\* whose configId is the deleted key; every other label stays, in order, with
\* its id, start, end, text and color unchanged.
C6_CascadeRemovesExactly ==
    [][\A idx \in 1..(MAX_HOTKEYS - 1) :
         (/\ lastOp' = "deleteCategory.cascade"
          /\ idx < Len(labelConfigs)
          /\ \E i \in DOMAIN labels : labels[i].configId = labelConfigs[idx + 1].key
          /\ handleDeleteCategory(idx, FALSE))
         => LET k == labelConfigs[idx + 1].key
                Other(l) == l.configId # k
                Kept(l) == [id |-> l.id, start |-> l.start, end |-> l.end,
                            text |-> l.text, color |-> l.color]
                before == SelectSeq(AfterBlur, Other)
            IN /\ Len(labels') = Len(before)
               /\ \A i \in DOMAIN before : Kept(labels'[i]) = Kept(before[i])]_vars

\* a cascade has just removed a category's labels and another label remains
C6_Witness ==
    /\ lastOp = "deleteCategory.cascade"
    /\ Len(labels) >= 1

\* C7: on release of a Creating gesture a label is appended iff
\* |current - anchor| > 0.05 s; otherwise the stored labels are unchanged; in
\* both cases Creating ends.
C7_CommitIffAboveThreshold ==
    [][(creatingLabel.on /\ HandleMouseUp)
       => LET lo == Min(creatingLabel.start, creatingLabel.current)
              hi == Max(creatingLabel.start, creatingLabel.current)
              n == Len(labels)
          IN /\ ~creatingLabel'.on
             /\ IF Abs(creatingLabel.current - creatingLabel.start) * 20
                     > TicksPerSecond
                THEN /\ Len(labels') = n + 1
                     /\ \A i \in 1..n : Core(labels'[i]) = Core(labels[i])
                     /\ labels'[n + 1].start = lo
                     /\ labels'[n + 1].end = hi
                     /\ labels'[n + 1].id \notin IdsOf(labels)
                ELSE labels' = labels]_vars

\* a drag of exactly 0.05 s has just been discarded, after an earlier commit
C7_Witness ==
    /\ lastOp = "mouseUp.discard"
    /\ Len(labels) >= 1

\* C8: pointer positions that map outside [0, duration] are clamped and the
\* gesture goes on: the moving end of a Creating drag that runs past the end
\* of the timeline is duration, the committed label then ends at duration,
\* and a label with start = 0 and end = duration can be created.
C8_OutOfRangeClamped ==
    [][/\ \A x \in PointerXs :
            (creatingLabel.on /\ ~dragStart.on /\ HandleMouseMove(x))
            => LET raw == PxToTime(x + scrollLeft)
               IN /\ creatingLabel'.on
                  /\ creatingLabel'.start = creatingLabel.start
                  /\ creatingLabel'.current =
                        (IF raw < 0 THEN 0 ELSE IF raw > duration THEN duration
                         ELSE raw)
       /\ \A x \in PointerXs : \A b \in Buttons :
            (~creatingLabel.on /\ HandleMouseDown(x, b) /\ creatingLabel'.on)
            => /\ 0 <= creatingLabel'.start
               /\ creatingLabel'.start <= duration
       /\ (creatingLabel.on /\ HandleMouseUp /\ Len(labels') > Len(labels))
            => LET l == labels'[Len(labels')]
               IN /\ 0 <= l.start
                  /\ l.end <= duration
                  /\ creatingLabel.current = duration => l.end = duration
                  /\ creatingLabel.current = 0 => l.start = 0]_vars

\* a Creating drag from the first column past the end of the timeline has
\* committed the label [0, duration]
C8_Witness ==
    /\ lastOp = "mouseUp.commit"
    /\ duration > 0
    /\ labels[Len(labels)].start = 0
    /\ labels[Len(labels)].end = duration
    /\ PxToTime(120 + scrollLeft) > duration

\* C9: while a label is resized, after every pointer move the moved edge is
\* at least 0.05 s from the fixed edge, the fixed edge and the label's other
\* fields are unchanged, and no other label is changed.
C9_ResizeKeepsMinLength ==
    [][\A x \in PointerXs :
         (resizingLabel.on /\ HandleMouseMove(x))
         => /\ Len(labels') = Len(labels)
            /\ \A i \in DOMAIN labels :
                  IF labels[i].id = resizingLabel.id
                  THEN /\ (labels'[i].end - labels'[i].start) * 20
                             >= TicksPerSecond
                       /\ resizingLabel.side = "start"
                             => labels'[i].end = labels[i].end
                       /\ resizingLabel.side = "end"
                             => labels'[i].start = labels[i].start
                       /\ [Core(labels'[i]) EXCEPT !.start = 0, !.end = 0]
                             = [Core(labels[i]) EXCEPT !.start = 0, !.end = 0]
                  ELSE Core(labels'[i]) = Core(labels[i])]_vars

\* a resize has just been stopped at 0.05 s from the fixed edge, with a
\* second label stored
C9_Witness ==
    /\ lastOp = "mouseMove.resize"
    /\ resizingLabel.on
    /\ Len(labels) = 2
    /\ \E i \in DOMAIN labels :
          /\ labels[i].id = resizingLabel.id
          /\ (labels[i].end - labels[i].start) * 20 = TicksPerSecond

\* C10: while a label is dragged, after every pointer move its length
\* (end - start) is what it was and its start is >= 0; all other labels are
\* unchanged.
C10_DragKeepsLength ==
    [][\A x \in PointerXs :
         (draggedLabel.on /\ HandleMouseMove(x))
         => /\ Len(labels') = Len(labels)
            /\ \A i \in DOMAIN labels :
                  IF labels[i].id = draggedLabel.id
                  THEN /\ labels'[i].end - labels'[i].start
                             = labels[i].end - labels[i].start
                       /\ labels'[i].start >= 0
                  ELSE Core(labels'[i]) = Core(labels[i])]_vars

\* C11: Creating begins only on a primary-button press on empty canvas at
\* least 50 px right of the left edge: a canvas press that turns Creating on
\* has button 0 and x >= AXIS_MARGIN, and a press on a label never turns it on.
C11_CreatingOnlyOnPrimaryPress ==
    [][/\ \A x \in PointerXs : \A b \in Buttons :
            (~creatingLabel.on /\ HandleMouseDown(x, b) /\ creatingLabel'.on)
            => (b = 0 /\ x >= AXIS_MARGIN)
       /\ \A i \in 1..MaxLabels : \A x \in PointerXs : \A b \in Buttons :
            (~creatingLabel.on /\ LabelMouseDown(i, x, b))
            => ~creatingLabel'.on]_vars

\* C12: the label a Creating gesture commits has the key and the color of the
\* category active at release as its configId and color, and that category's
\* text as its text, except that its text is empty when the active category
\* is the default one (key "0").
C12_NewLabelInheritsActive ==
    [][(lastOp' = "mouseUp.commit" /\ creatingLabel.on /\ HandleMouseUp)
       => LET active == labelConfigs[activeLabelIndex + 1]
              l == labels'[Len(labels')]
          IN /\ l.id \notin IdsOf(labels)
             /\ l.configId = active.key
             /\ l.color = active.color
             /\ l.text = (IF active.key = "0" THEN "" ELSE active.text)]_vars

\* a label has just been committed with the second named category active
C12_Witness ==
    /\ lastOp = "mouseUp.commit"
    /\ activeLabelIndex = 2
    /\ selectedLabelId = labels[Len(labels)].id
    /\ labels[Len(labels)].configId = "2"
    /\ labels[Len(labels)].color = HOTKEY_COLORS[3]
    /\ labels[Len(labels)].text = labelConfigs[3].text

\* C13: when a label's text is edited to a text that equals, ignoring case,
\* the text of a non-default category, the label gets the key and color of
\* such a category as configId and color; when the text of a label bound to
\* a non-default category is edited to a text that matches no such category,
\* the label gets configId "0" and color "#ffffff".  No other label changes.
C13_EditRebindsOrReverts ==
    [][\A i \in 1..MaxLabels : \A t \in EditTexts :
         (/\ lastOp' \in {"inputChange.rebind", "inputChange.revert",
                          "inputChange.text"}
          /\ InputChange(i, t))
         => LET matches == {c \in DOMAIN labelConfigs :
                               /\ labelConfigs[c].key # "0"
                               /\ toLowerCase(labelConfigs[c].text)
                                     = toLowerCase(t)}
            IN /\ Len(labels') = Len(labels)
               /\ labels'[i].id = labels[i].id
               /\ matches # {}
                    => \E c \in matches :
                          /\ labels'[i].configId = labelConfigs[c].key
                          /\ labels'[i].color = labelConfigs[c].color
               /\ (matches = {} /\ labels[i].configId # "0")
                    => /\ labels'[i].configId = "0"
                       /\ labels'[i].color = "#ffffff"
                       /\ labels'[i].text = t
               /\ \A j \in DOMAIN labels :
                     j # i => Core(labels'[j]) = Core(labels[j])]_vars

\* typing "CALL" has just bound a label to the category "Call", while
\* another label, unbound from its category by an edit, is stored
C13_Witness ==
    /\ lastOp = "inputChange.rebind"
    /\ Len(labels) = 2
    /\ \E i, j \in DOMAIN labels :
          /\ labels[i].id = focusedId
          /\ labels[i].configId = "1"
          /\ labels[i].text = "Call"
          /\ labels[i].color = HOTKEY_COLORS[2]
          /\ labels[j].configId = "0"
          /\ labels[j].text = "x"

\* C14: no label with empty text stays in the stored set once the focus is
\* away from it: every stored label whose text is empty (after trimming) is
\* the one whose text input has the focus, or is still the selected label.
C14_NoStandingEmptyLabel ==
    \A i \in DOMAIN labels :
        trim(labels[i].text) = ""
        => \/ focusedId = labels[i].id
           \/ selectedLabelId = labels[i].id

StartsBefore(i, j) ==
    \/ labels[i].start < labels[j].start
    \/ labels[i].start = labels[j].start /\ i < j

\* the labels (0,5), (3,8), (6,10) s, in this order
ExampleLabels ==
    /\ Len(labels) = 3
    /\ labels[1].start = 0 /\ labels[1].end = 5 * TicksPerSecond
    /\ labels[2].start = 3 * TicksPerSecond /\ labels[2].end = 8 * TicksPerSecond
    /\ labels[3].start = 6 * TicksPerSecond /\ labels[3].end = 10 * TicksPerSecond

\* C16: calculateLabelLayers takes the labels in ascending start order and
\* gives each the lowest lane whose last assigned label ends at least 0.1 s
\* before the label starts, or else a new lane; so two labels of one lane
\* are at least 0.1 s apart, and (0,5), (3,8), (6,10) get lanes 0, 1, 0.
C16_GreedyLanes ==
    lastOp = "layers"
    => /\ \A p \in DOMAIN labels :
             LET earlier == {q \in DOMAIN labels : StartsBefore(q, p)}
                 lanes == {labels[q].layerIndex : q \in earlier}
                 last(k) == CHOOSE q \in earlier :
                               /\ labels[q].layerIndex = k
                               /\ \A r \in earlier :
                                     labels[r].layerIndex = k
                                     => (r = q \/ StartsBefore(r, q))
                 fits == {k \in lanes :
                             (labels[p].start - labels[last(k)].end) * 10
                                >= TicksPerSecond}
             IN labels[p].layerIndex =
                   (IF fits = {} THEN Cardinality(lanes) ELSE SetMin(fits))
       /\ \A i, j \in DOMAIN labels :
             (i # j /\ labels[i].layerIndex = labels[j].layerIndex)
             => \/ (labels[j].start - labels[i].end) * 10 >= TicksPerSecond
                \/ (labels[i].start - labels[j].end) * 10 >= TicksPerSecond
       /\ ExampleLabels
             => /\ labels[1].layerIndex = 0
                /\ labels[2].layerIndex = 1
                /\ labels[3].layerIndex = 0

\* the labels (0,5), (3,8), (6,10) s have been laid out
C16_Witness ==
    /\ lastOp = "layers"
    /\ ExampleLabels
    /\ labels[2].layerIndex = 1

\* the category at index 0 is the default one and the keys are "0", "1", ...
\* in list order
KeysInListOrder ==
    /\ Len(labelConfigs) >= 1
    /\ labelConfigs[1] = [key |-> "0", text |-> "Custom Label", color |-> "#ffffff"]
    /\ \A i \in DOMAIN labelConfigs : labelConfigs[i].key = toString(i - 1)

\* C17: after any additions and deletions of categories the category at
\* index 0 is the default category with key "0" and the keys of the list are
\* "0", "1", ..., "n-1" in list order; a delete request for index 0 leaves
\* the categories, the active index and the labels as they are.
C17_DefaultKeptKeysContiguous ==
    /\ KeysInListOrder
    /\ [][/\ KeysInListOrder'
          /\ \A choice \in BOOLEAN :
                handleDeleteCategory(0, choice)
                => /\ UNCHANGED <<labelConfigs, activeLabelIndex>>
                   /\ labels' = AfterBlur]_vars

\* a category has just been deleted and the one that followed it now has
\* key "1"
C17_Witness ==
    /\ lastOp \in {"deleteCategory.unused", "deleteCategory.convert",
                   "deleteCategory.cascade"}
    /\ Len(labelConfigs) = 2
    /\ labelConfigs[2].key = "1"
    /\ labelConfigs[2].color = HOTKEY_COLORS[2]
    /\ \E i \in DOMAIN labels : labels[i].configId = "2"

\* C18: in every reachable state 1 s <= windowSize <= 60 s, whatever ctrl/meta
\* wheel zooms (in and out, with no media, with media shorter than 1 s) and
\* slider changes were made.
C18_ZoomWithinBounds ==
    /\ MIN_ZOOM_SEC * ZoomScale <= windowSize
    /\ windowSize <= MAX_ZOOM_SEC * ZoomScale

\* with media shorter than 1 s loaded, a wheel zoom has just been stopped at
\* the lower bound
C18_Witness ==
    /\ lastOp = "wheel.zoom"
    /\ duration > 0
    /\ duration < TicksPerSecond
    /\ windowSize = MIN_ZOOM_SEC * ZoomScale

\* C19: in every reachable state 0 <= minFreq < maxFreq, and maxFreq is at
\* most half the sample rate of the loaded audio, whatever edits of the Min
\* and Max frequency fields and file loads were made.
C19_FreqRangeValid ==
    /\ 0 <= minFreq
    /\ minFreq < maxFreq
    /\ audioBuffer # 0 => maxFreq <= loads[audioBuffer].file.sampleRate \div 2

\* C20: the spectrogram field the renderer sees is absent or complete: when
\* specData is set, the analysis that produced it has returned and every one
\* of its columns has been written, although the analysis yields on its way.
C20_OnlyCompleteFieldPublished ==
    specData # 0
    => /\ loads[specData].pc = "done"
       /\ loads[specData].written = WidthOf(loads[specData]).n

\* the field of a file of 1500 columns, whose analysis yielded more than
\* once, has just been published
C20_Witness ==
    /\ lastOp = "upload.published"
    /\ specData # 0
    /\ WidthOf(loads[specData]).n > YIELD_EVERY
    /\ loads[specData].written = WidthOf(loads[specData]).n

\* C21: a load whose decoding or analysis failed stays failed (it is not
\* started again), and while it is the current load there is no spectrogram
\* data, its error is recorded, the processing flag is cleared and every
\* draw leaves the "unavailable" placeholder on the canvas.
C21_FailedLoadShowsPlaceholder ==
    /\ [](\A l \in DOMAIN loads :
             (l = Len(loads) /\ loads[l].pc = "failed")
             => /\ specData = 0
                /\ spectrogramError = l
                /\ ~isProcessing
                /\ lastOp = "draw" => canvas.kind = "placeholder")
    /\ [][\A l \in DOMAIN loads :
             loads[l].pc = "failed" => loads'[l].pc = "failed"]_vars

\* n is a power of two
IsPowerOfTwo(n) == \E k \in 0..30 : 2^k = n

\* the call of a load has ended
Ended(load) == load.pc \in {"done", "failed"}

\* C22: for a power-of-two fftSize >= 2, a hopSize > 0 and any number N of
\* samples, generateSpectrogramData returns a field of width
\* floor((N - fftSize) / hopSize) and height fftSize / 2 whose buffer has
\* width * height cells, and every column it analysed read a full frame of
\* fftSize samples.
C22_FieldDimensions ==
    \A l \in DOMAIN loads :
        LET load == loads[l]
            N    == load.file.length
        IN  (/\ Ended(load)
             /\ IsPowerOfTwo(load.fftSize) /\ load.fftSize >= 2
             /\ load.hopSize > 0)
            => /\ load.pc = "done"
               /\ specData = l
               /\ WidthOf(load) = Finite((N - load.fftSize) \div load.hopSize)
               /\ HeightOf(load) * 2 = load.fftSize
               /\ BufferLength(WidthOf(load), HeightOf(load))
                     = WidthOf(load).n * HeightOf(load)
               /\ \A col \in 0..(load.written - 1) :
                     ChunkLength(N, load.fftSize, col * load.hopSize)
                        = load.fftSize

\* C23: whenever fftSize is not a power of two or hopSize <= 0, the analyzer
\* fails with an InvalidConfig error and produces no field.
C23_InvalidConfigRejected ==
    \A l \in DOMAIN loads :
        LET load == loads[l]
        IN  (~IsPowerOfTwo(load.fftSize) \/ load.hopSize <= 0)
            => /\ load.pc \in {"decode", "failed"}
               /\ load.pc = "failed" => load.error = "InvalidConfig"
               /\ specData # l

\* the published field, and the pixels of the canvas that lie in it
Field == loads[specData]
FieldPixels == {p \in Pixels : InField(p[1], Field)}

\* C24: the analyzer stores the intensity of bin b of column c at row
\* height-1-b of the column, so that row 0 holds the highest bin, and a pixel
\* the renderer resolves to bin b of column c shows exactly that cell.
C24_RowsHighToLow ==
    specData # 0
    => LET height == HeightOf(Field) IN
       /\ \A col \in 0..(Field.written - 1) :
             /\ \A bin \in 0..(height - 1) :
                   Cell(Field, col * height + (height - 1 - bin))
                      = BinIntensity(col, bin)
             /\ Cell(Field, col * height) = BinIntensity(col, height - 1)
       /\ lastOp = "draw"
          => \A p \in FieldPixels :
                canvas.px[p] = Tone(BinIntensity(ColumnOf(p[1], Field),
                                                 BinOfRow(p[2], Field)))

\* a picture has been drawn that shows, in one column of the field, the
\* highest bin in the upper row and another bin in the lower row
C24_Witness ==
    /\ lastOp = "draw"
    /\ specData # 0
    /\ \E x \in DrawXs :
          /\ InField(x, Field)
          /\ BinOfRow(0, Field) = HeightOf(Field) - 1
          /\ BinOfRow(1, Field) < HeightOf(Field) - 1
          /\ canvas.px[<<x, 0>>] # canvas.px[<<x, 1>>]

\* C25: on each of the three scales, the frequency the picture shows in a
\* row y, given to the formula that places the axis ticks, comes back as
\* row y, for every row of the canvas and also when minFreq is 0.
C25_RowFrequencyRoundTrip ==
    \A y \in 0..(CanvasH - 1) : TickRow(TargetFreq(y)) = Finite(y)

\* the column of the field in which time t (in picture units) falls
ColumnOfTime(t, load) == (t * WidthOf(load).n) \div (duration * TickScale)

\* C26: the time hit-testing gives to pixel column x, (x + scrollLeft) /
\* pixelsPerSecond, is the time whose spectrogram column is drawn at x, and a
\* label edge or ruler tick drawn at column x belongs to that same time.
C26_HitTestMatchesPicture ==
    /\ \A x \in DrawXs : PointerTime(x) = PixelTime(x)
    /\ (lastOp = "draw" /\ specData # 0)
       => \A p \in FieldPixels :
             canvas.px[p] =
                Tone(BinIntensity(ColumnOfTime(PointerTime(p[1]), Field),
                                  BinOfRow(p[2], Field)))
    /\ \A t \in {labels[i].start : i \in DOMAIN labels}
               \cup {labels[i].end : i \in DOMAIN labels} \cup RULER_TICKS :
          PxToTime(TimeToPx(t) + scrollLeft) = t

\* a scrolled picture has been drawn in which a pixel shows a column of the
\* field other than the first
C26_Witness ==
    /\ lastOp = "draw"
    /\ specData # 0
    /\ scrollLeft > 0
    /\ \E p \in FieldPixels :
          /\ ColumnOfTime(PointerTime(p[1]), Field) > 0
          /\ canvas.px[p] >= 0

\* the colour index the formula of the specification gives: the stretch
\* about 0.5, the brightness, and one clamp to [0, 255] at the end
ClampedLast(rawIntensity) ==
    LET stretched == (2 * rawIntensity - MAX_BYTE) * contrast + MAX_BYTE * Tenths
        val       == stretched * intensity
    IN  Max(0, Min(val, MAX_BYTE * 2 * Tenths * Tenths)) \div (2 * Tenths * Tenths)

\* C27: the value looked up in the colour table for a stored intensity n is
\* clamp(((n/255 - 0.5) * contrast + 0.5) * brightness * 255, 0, 255), the
\* clamp being applied only after contrast and brightness.
C27_ClampAfterBrightness ==
    (lastOp = "draw" /\ specData # 0)
    => \A p \in FieldPixels :
          canvas.px[p] = ClampedLast(BinIntensity(ColumnOf(p[1], Field),
                                                  BinOfRow(p[2], Field)))

ExportedFields(l) ==
    {"id", "configId", "start", "end", "text", "color"}
        \cup (IF l.layerIndex = NO_LAYER THEN {} ELSE {"layerIndex"})

exportToJSON == [i \in DOMAIN labels |-> ExportedFields(labels[i])]

\* C28: computing the layering leaves the stored label records as they
\* were, and a stored or exported label carries id, configId, start, end,
\* text and color and never a layerIndex.
C28_LayeringLeavesLabelsUnchanged ==
    /\ [][lastOp' = "layers" => labels' = labels]_vars
    /\ [](\A i \in DOMAIN labels :
             exportToJSON[i] = {"id", "configId", "start", "end", "text", "color"})

\* C29: an analysis yields to the event loop after every batch of columns,
\* no more than YIELD_EVERY columns being processed between two yields, and
\* an analysis that has yielded eventually completes and returns its field.
C29_YieldsAndCompletes ==
    /\ [][\A l \in DOMAIN loads :
             loads'[l].written - loads[l].written <= YIELD_EVERY]_vars
    /\ \A l \in 1..MaxLoads :
          (l \in DOMAIN loads /\ loads[l].pc = "analyse")
          ~> (l \in DOMAIN loads /\ loads[l].pc = "done" /\ specData = l)

\* an analysis of more than two batches, which yielded between them, has
\* returned its field
C29_Witness ==
    /\ lastOp = "upload.published"
    /\ specData = 1
    /\ loads[1].pc = "done"
    /\ loads[1].written > 2 * YIELD_EVERY
    /\ loads[1].written = WidthOf(loads[1]).n

\* C36: in every reachable state the scroll offset lies between 0 and
\* max(0, duration * pixelsPerSecond - viewportWidth), whatever pans, zoom
\* gestures and slider changes came before.
C36_ScrollWithinMedia ==
    /\ 0 <= scrollLeft
    /\ scrollLeft <= Max(0, (duration * ViewW * ZoomScale)
                                \div (windowSize * TicksPerSecond) - ViewW)

\* C33: isProcessing is true exactly while the most recently started load is
\* still decoding or analysing, and false once it has succeeded or failed,
\* also when loads overlap.
C33_ProcessingWhileInFlight ==
    isProcessing
    <=> /\ loads # << >>
        /\ loads[Len(loads)].pc \in {"decode", "analyse"}

\* C32: in every reachable state selectedLabelId is null or the id of a
\* stored label: whatever removes the selected label clears the selection.
C32_SelectionIsStored ==
    selectedLabelId = 0 \/ selectedLabelId \in IdsOf(labels)

\* the 0-based position, after the category at position idx is deleted, of
\* the surviving category that was at position j
ShiftedIndex(j, idx) == IF j < idx THEN j ELSE j - 1

\* C31: deleting the category at position idx leaves every label of every
\* other category bound to the same category: a label whose configId was the
\* key of the surviving category at position j has, after the deletion, the
\* key that this category has then.
C31_DeletionKeepsBindings ==
    [][\A idx \in 1..(MAX_HOTKEYS - 1) :
         (/\ lastOp' \in {"deleteCategory.convert", "deleteCategory.cascade",
                          "deleteCategory.unused"}
          /\ \E choice \in BOOLEAN : handleDeleteCategory(idx, choice))
         => \A j \in (0..(Len(labelConfigs) - 1)) \ {idx} :
              \A i \in DOMAIN AfterBlur :
                 AfterBlur[i].configId = labelConfigs[j + 1].key
                 => \E k \in DOMAIN labels' :
                       /\ labels'[k].id = AfterBlur[i].id
                       /\ labels'[k].configId =
                              labelConfigs'[ShiftedIndex(j, idx) + 1].key]_vars

\* C34: the completion of an analysis, successful or failed, leaves the
\* labels, the selection, the category list and the active category as they
\* were: what was drawn, moved, resized or deleted in the meantime is kept.
C34_CompletionKeepsLabels ==
    [][lastOp' \in {"upload.published", "upload.failed"}
       => UNCHANGED <<labels, selectedLabelId, labelConfigs,
                      activeLabelIndex>>]_vars

\* an analysis has completed while a label drawn during it is stored
C34_Witness ==
    /\ lastOp = "upload.published"
    /\ labels # << >>
    /\ loads[specData].written > YIELD_EVERY

\* C35: the start of a file load empties the label set, clears the selection,
\* discards the spectrogram data and the error and stops playback, and leaves
\* the category list as it was; and from then until the analysis of that load
\* has finished no spectrogram data is set.
C35_LoadStartResets ==
    /\ [][lastOp' = "upload.start"
          => /\ labels' = << >>
             /\ selectedLabelId' = 0
             /\ specData' = 0
             /\ spectrogramError' = 0
             /\ isPlaying' = FALSE
             /\ paused'
             /\ UNCHANGED <<labelConfigs, activeLabelIndex>>]_vars
    /\ [](loads # << >> /\ loads[Len(loads)].pc \in {"decode", "analyse"}
          => specData = 0)

\* C37: in every reachable state activeLabelIndex is an index into the
\* category list, and the list holds at most 10 categories, whatever digit
\* hotkeys, category clicks, additions and deletions came before.
C37_ActiveIndexValid ==
    /\ 0 <= activeLabelIndex
    /\ activeLabelIndex < Len(labelConfigs)
    /\ Len(labelConfigs) <= MAX_HOTKEYS

\* the list is full, and a digit has made its last category the active one
C37_Witness ==
    /\ Len(labelConfigs) = MAX_HOTKEYS
    /\ lastOp = "keyDigit"
    /\ activeLabelIndex = MAX_HOTKEYS - 1

\* C38: saving a rename with a non-empty name that differs from the
\* category's text gives that name to every label whose configId is the
\* category's key and leaves the text of the other labels, and the id, start,
\* end, color and configId of all labels, as they were; saving an empty or
\* unchanged name changes neither the categories nor any label.
C38_RenameRetextsItsLabels ==
    [][(lastOp' \in {"rename.saved", "rename.closed"} /\ saveEditingCategory)
       => LET config == labelConfigs[editingLabelIndex + 1]
              newName == trim(editingLabelText)
          IN IF newName # "" /\ newName # config.text
             THEN /\ Len(labels') = Len(labels)
                  /\ \A i \in DOMAIN labels :
                        Core(labels'[i]) =
                            [Core(labels[i]) EXCEPT
                                !.text = IF labels[i].configId = config.key
                                         THEN newName
                                         ELSE labels[i].text]
                  /\ labelConfigs' =
                         [labelConfigs EXCEPT
                             ![editingLabelIndex + 1].text = newName]
             ELSE /\ Len(labels') = Len(labels)
                  /\ \A i \in DOMAIN labels :
                        Core(labels'[i]) = Core(labels[i])
                  /\ UNCHANGED labelConfigs]_vars

\* a rename has been saved while one label of the category and one label of
\* another category are stored, and the typed name had spaces around it
C38_Witness ==
    /\ lastOp = "rename.saved"
    /\ \E i, j \in DOMAIN labels, c \in DOMAIN labelConfigs :
          /\ labelConfigs[c].text = "song"
          /\ labels[i].configId = labelConfigs[c].key
          /\ labels[i].text = "song"
          /\ labels[j].configId # labelConfigs[c].key
          /\ labels[j].text # "song"

\* C39: isPlaying is true exactly when the media element is playing: in every
\* reachable state, once a file is chosen, isPlaying is false when the element
\* is paused or has ended, and true when it plays.
C39_PlayingFlagMatchesElement ==
    videoSrc # 0 => (isPlaying <=> ~(paused \/ ended))

\* C40: the source node and the gain node of the media element are created
\* at most once, and whenever the gain node exists its gain is 0 if muted and
\* the volume otherwise, whatever play events, src changes and volume or
\* muted changes came before.
C40_OneGraphGainFollowsVolume ==
    /\ nodesCreated <= 1
    /\ sourceNodeRef <=> nodesCreated = 1
    /\ gainNodeRef.on => gainNodeRef.gain = IF muted THEN 0 ELSE volume

\* the nodes exist while a second file is played, and the sound was muted
\* after the volume had been raised
C40_Witness ==
    /\ gainNodeRef.on
    /\ ~paused
    /\ videoSrc > 1
    /\ lastOp = "mute"
    /\ muted
    /\ volume = MAX_VOLUME * VolumeScale
    /\ gainNodeRef.gain = 0

====
